---- MODULE Spec2Model ----
(***************************************************************************)
(* backdrop: a supervisor of background server processes.                  *)
(*                                                                         *)
(* Two managers are modelled, each against the same OS process table:      *)
(*   DaemonManager  (daemon.py)  - registry is one JSON document           *)
(*   ProcessManager (process.py) - registry is one PID file per name       *)
(* Strings are sequences of one-character strings, so that the substring,  *)
(* split and join operations of the code are computed, not assumed.        *)
(* A manager call is one action; what the OS does while the call sleeps or *)
(* polls (the process exits, obeys or ignores a signal) is chosen by \E.   *)
(* The call leaves its outcome in lastCall, and the command-line tool      *)
(* reports it and exits (Report) before anything else happens.             *)
(***************************************************************************)
EXTENDS Integers, Sequences, FiniteSets, TLC

VARIABLES
    manager,     \* the manager this installation uses: "dm" (daemon.py, the one
                 \* cli.py constructs) or "pm" (process.py)
    procs,       \* the OS process table: pid -> process
    state_file,  \* DaemonManager.state_file (servers.json)
    pid_files,   \* ProcessManager.pids_dir: key -> content of <key>.pid
    clock,       \* wall clock, read by datetime.now(); one tick per launch,
                 \* and no launch once it shows MaxClock
    lastCall,    \* the manager call that has just returned (its result and its
                 \* signals); NoCall once the command line has reported it
    log_text,    \* the text of the log file that tail_log_file reads
    printed,     \* what tail_log_file has printed, one element per print()
    tail,        \* the tail_log_file call: its arguments and where it stands
    inv,         \* two command lines at work at once: where each DaemonManager
                 \* call stands and what it holds in memory
    saving,      \* while a _save_state has the store open: the store's content
                 \* before the open and the mapping being written
    ptab,        \* the processes of ProcessManager.start's detach sequence:
                 \* pid -> parent, session, process group, step
    ctty,        \* the sessions that have a controlling terminal
    typed,       \* the shell command typed so far, for a start without a name
    nwords,      \* the number of words typed
    derived      \* the name sanitize_name derived, and from which command

\* the variables of the managers and of the process table
base == <<manager, procs, state_file, pid_files, clock, lastCall>>

\* the variables of tail_log_file (logger.py)
tailVars == <<log_text, printed, tail>>

\* the variables of two interleaved DaemonManager calls
raceVars == <<inv, saving>>

\* the variables of the detach sequence (process.py, utils.py)
detachVars == <<ptab, ctty>>

\* the variables of the name derivation (utils.py sanitize_name)
nameVars == <<typed, nwords, derived>>

\* the variables a manager call does not touch
others == <<tailVars, raceVars, detachVars, nameVars>>

vars == <<base, others>>

----------------------------------------------------------------------------
(* Bounds of the model *)

MaxPid == 2
MaxClock == 2

Pids == 1..MaxPid

\* the element of a one-element set: Only({F(x) : x \in {e}}) is F(e), with e
\* evaluated once
Only(S) == CHOOSE x \in S : TRUE

----------------------------------------------------------------------------
(* Strings *)

IsSub(part, s) ==
    \E i \in 0..(Len(s) - Len(part)) : SubSeq(s, i + 1, i + Len(part)) = part

EndsWith(s, suf) ==
    Len(suf) <= Len(s) /\ SubSeq(s, Len(s) - Len(suf) + 1, Len(s)) = suf

RECURSIVE Join(_, _)
Join(parts, sep) ==
    IF parts = <<>> THEN <<>>
    ELSE IF Len(parts) = 1 THEN parts[1]
    ELSE parts[1] \o sep \o Join(Tail(parts), sep)

SP == <<" ">>

\* the last index of character c in s, 0 when absent (str.rfind + 1)
RECURSIVE RFind(_, _)
RFind(s, c) ==
    IF s = <<>> THEN 0
    ELSE IF s[Len(s)] = c THEN Len(s)
    ELSE RFind(SubSeq(s, 1, Len(s) - 1), c)

\* os.path.basename: what follows the last "/"
basename(s) == SubSeq(s, RFind(s, "/") + 1, Len(s))

\* pathlib.PurePath.stem of a path: the final component without its last suffix;
\* a leading dot, or a trailing one, starts no suffix
stem(s) ==
    LET n == basename(s)
        i == RFind(n, ".")
    IN IF 1 < i /\ i < Len(n) THEN SubSeq(n, 1, i - 1) ELSE n

----------------------------------------------------------------------------
(* The OS process table *)

NoName == <<>>

NoProc == [kind |-> "free", owner |-> NoName, cmdline |-> <<>>, denied |-> FALSE, cmd |-> <<>>,
           ppid |-> 0]

Exists(P, pid) == pid \in DOMAIN P /\ P[pid].kind # "free"

FreePids(P) == {p \in DOMAIN P : P[p].kind = "free"}

\* the pid the OS gives the next process: the lowest free one, 0 when none is left
NextPid(P) ==
    IF FreePids(P) = {} THEN 0
    ELSE CHOOSE p \in FreePids(P) : \A q \in FreePids(P) : p <= q

\* the process at pid is gone; its children are re-parented to init
Reap(P, pid) ==
    [q \in DOMAIN P |->
        IF q = pid THEN NoProc
        ELSE IF P[q].ppid = pid THEN [P[q] EXCEPT !.ppid = 0]
        ELSE P[q]]

RECURSIVE ReapAll(_, _)
ReapAll(P, pids) ==
    IF pids = {} THEN P
    ELSE LET p == CHOOSE x \in pids : TRUE
         IN ReapAll(Reap(P, p), pids \ {p})

\* what process.kill() leaves of pid: nothing, or the process itself when it
\* survives the signal; a survivor is no longer counted as a process of a manager
Killed(P, pid, survives) ==
    IF survives THEN [P EXCEPT ![pid].kind = "survivor"] ELSE Reap(P, pid)

----------------------------------------------------------------------------
(* daemon.py: ServerProcess *)

None == 0

\* the directories a call is made from, and the --cwd a caller may give
Dirs == {<<"/", "h">>}
CwdArgs == {NoName, <<"/", "g">>}

LOG_DIR == <<"L", "/">>

ServerProcess(name, command, pid, started_at, log_file, error_log_file, cwd) ==
    [name |-> name, command |-> command, pid |-> pid, started_at |-> started_at,
     log_file |-> log_file, error_log_file |-> error_log_file, cwd |-> cwd]

\* datetime.isoformat / datetime.fromisoformat: a timestamp and its text form
isoformat(t) == <<"T", t>>

\* a parser that loses the time of day
fromisoformat_midnight(x) == 0

fromisoformat(x) == x[2]

to_dict(server) ==
    [name |-> server.name, command |-> server.command, pid |-> server.pid,
     started_at |-> isoformat(server.started_at), log_file |-> server.log_file,
     error_log_file |-> server.error_log_file, cwd |-> server.cwd]

from_dict(data) ==
    ServerProcess(data.name, data.command, data.pid, fromisoformat(data.started_at),
                  data.log_file, data.error_log_file, data.cwd)

\* is_running with `part in " ".join(cmdline)` written as `part == " ".join(cmdline)`
is_running_equal(server, P) ==
    IF server.pid = None THEN FALSE
    ELSE IF ~Exists(P, server.pid) THEN FALSE
    ELSE LET cmdline == P[server.pid].cmdline
         IN Len(cmdline) > 0
            /\ \E k \in 1..Len(server.command) :
                   server.command[k] = Join(cmdline, SP)

\* ServerProcess.is_running against the process table P
is_running(server, P) ==
    IF server.pid = None THEN FALSE
    ELSE IF ~Exists(P, server.pid) THEN FALSE
    ELSE LET cmdline == P[server.pid].cmdline
         IN Len(cmdline) > 0
            /\ \E k \in 1..Len(server.command) :
                   IsSub(server.command[k], Join(cmdline, SP))

----------------------------------------------------------------------------
(* daemon.py: DaemonManager, the registry.  A dict is the sequence of its   *)
(* values in insertion order; the key of a value is its name.               *)

Keys(servers) == {servers[i].name : i \in 1..Len(servers)}

Get(servers, name) ==
    servers[CHOOSE i \in 1..Len(servers) : servers[i].name = name]

\* the deletion left out: the mapping stays as it was loaded
Del_nothing(servers, name) == servers

\* del servers[name]
Del(servers, name) == SelectSeq(servers, LAMBDA r : r.name # name)

\* the assignment left out: the mapping stays as it was loaded
Put_nothing(servers, server) == servers

\* servers[name] = server
Put(servers, server) ==
    IF server.name \in Keys(servers)
    THEN [i \in 1..Len(servers) |->
             IF servers[i].name = server.name THEN server ELSE servers[i]]
    ELSE Append(servers, server)

\* the state file: whether it exists, whether its text is a JSON object (json),
\* and the values of that object in order (data)
NoFile == [exists |-> FALSE, json |-> TRUE, data |-> <<>>]

\* from_dict(d) raises nothing: d has the keys __init__ requires and a timestamp
\* fromisoformat accepts (the optional keys are present in every entry drawn here)
Convertible(d) ==
    /\ {"name", "command", "started_at"} \subseteq DOMAIN d
    /\ Len(d.started_at) = 2
    /\ d.started_at[1] = "T"

\* _load_state that skips the entries it cannot convert instead of giving up
_load_state_skipping(sf) ==
    IF ~sf.exists \/ ~sf.json THEN <<>>
    ELSE LET good == SelectSeq(sf.data, Convertible)
         IN [i \in 1..Len(good) |-> from_dict(good[i])]

\* `except Exception: return {}` covers json.load and every from_dict
_load_state(sf) ==
    IF ~sf.exists THEN <<>>
    ELSE IF ~sf.json \/ \E i \in 1..Len(sf.data) : ~Convertible(sf.data[i]) THEN <<>>
    ELSE [i \in 1..Len(sf.data) |-> from_dict(sf.data[i])]

_save_state(servers) ==
    [exists |-> TRUE, json |-> TRUE,
     data |-> [i \in 1..Len(servers) |-> to_dict(servers[i])]]

\* the clean-up with the filter turned around: it keeps the dead
_clean_dead_processes_keeping_dead(sf, P) ==
    LET servers == _load_state(sf)
        dead_servers == SelectSeq(servers, LAMBDA r : ~is_running(r, P))
    IN IF Len(dead_servers) # Len(servers) THEN _save_state(dead_servers) ELSE sf

\* the clean-up that rewrites the store whether or not it dropped an entry
_clean_dead_processes_always_saving(sf, P) ==
    LET servers == _load_state(sf)
        alive_servers == SelectSeq(servers, LAMBDA r : is_running(r, P))
    IN _save_state(alive_servers)

\* returns the state file after the call
_clean_dead_processes(sf, P) ==
    LET servers == _load_state(sf)
        alive_servers == SelectSeq(servers, LAMBDA r : is_running(r, P))
    IN IF Len(alive_servers) # Len(servers) THEN _save_state(alive_servers) ELSE sf

----------------------------------------------------------------------------
(* What the OS does during one stop call *)

GracePolls == 10
Never == GracePolls + 1

\* race:  "early" - the process exits between the liveness check and
\*                  psutil.Process(pid); "late" - right after psutil.Process(pid)
\* death: the number of one-second sleeps after which a process that was sent
\*        the graceful signal is gone; Never when it ignores the signal
\* survives: the process is still there after the forced kill (it is stuck in
\*        the kernel, in uninterruptible sleep)
StopEnvs ==
    {[race |-> "none", death |-> d, survives |-> FALSE] : d \in {0, 1, GracePolls, Never}}
    \cup {[race |-> r, death |-> Never, survives |-> FALSE] : r \in {"early", "late"}}
    \cup {[race |-> "none", death |-> Never, survives |-> TRUE]}

TERM(pid) == <<"TERM", pid>>
KILL(pid) == <<"KILL", pid>>

----------------------------------------------------------------------------
(* daemon.py: DaemonManager.start / stop / restart / list_servers / stop_all *)

DotLog == <<".", "l", "o", "g">>
ErrorLog == <<"_", "e", "r", "r", "o", "r", ".", "l", "o", "g">>

\* writes: the number of _save_state calls of the invocation
StartResult(file, P, name, res, pid, command, cwd, msg, writes) ==
    [file |-> file, procs |-> P, name |-> name, res |-> res, pid |-> pid,
     command |-> command, cwd |-> cwd, msg |-> msg, writes |-> writes]

\* subprocess.Popen(command, cwd=cwd, start_new_session=True) getting pid p
Popen(P, p, name, command) ==
    [P EXCEPT ![p] = [kind |-> "dm", owner |-> name, cmdline |-> command,
                      denied |-> FALSE, ppid |-> 0, cmd |-> command]]

\* the collision check with the liveness test left out
already_running_never(servers, name, P) == FALSE

\* `name in servers and servers[name].is_running()`
already_running(servers, name, P) ==
    name \in Keys(servers) /\ is_running(Get(servers, name), P)

Digits == <<"0", "1", "2", "3", "4", "5", "6", "7", "8", "9">>

\* str(n) of a natural number
RECURSIVE str(_)
str(n) == IF n < 10 THEN <<Digits[n + 1]>> ELSE str(n \div 10) \o <<Digits[(n % 10) + 1]>>

\* the message of start's (success, message) result; pid is the pid the message
\* shows, the text of the exception of a failed Popen is left empty
StartMsg(res, name, pid, error_log_file) ==
    CASE res = "AlreadyRunning" ->
             <<"S", "e", "r", "v", "e", "r", " ", "'">> \o name \o <<"'", " ", "i", "s", " ", "a", "l", "r", "e", "a", "d", "y", " ", "r", "u", "n", "n", "i", "n", "g", " ", "(", "P", "I", "D", ":", " ">>
             \o str(pid) \o <<")">>
      [] res = "StartupFailed" ->
             <<"P", "r", "o", "c", "e", "s", "s", " ", "s", "t", "a", "r", "t", "e", "d", " ", "b", "u", "t", " ", "i", "m", "m", "e", "d", "i", "a", "t", "e", "l", "y", " ", "e", "x", "i", "t", "e", "d", ".", " ", "C", "h", "e", "c", "k", " ">>
             \o error_log_file
      [] res = "Started" ->
             <<"S", "t", "a", "r", "t", "e", "d", " ">> \o name \o <<" ", "(", "P", "I", "D", ":", " ">> \o str(pid) \o <<")">>
      [] OTHER ->
             <<"F", "a", "i", "l", "e", "d", " ", "t", "o", " ", "s", "t", "a", "r", "t", " ", "s", "e", "r", "v", "e", "r", ":", " ">>

\* start that leaves the provisional record in the registry when the process is
\* found dead
DaemonManager_start_keeping(sf, P, now, here, command, name, cwd, ok, exited) ==
    LET sf1 == _clean_dead_processes(sf, P)
        nm == IF name = NoName THEN stem(command[1]) ELSE name
        servers == _load_state(sf1)
        p == IF ok THEN NextPid(P) ELSE 0
        errlog == LOG_DIR \o nm \o ErrorLog
        cleaned == IF Len(_load_state(sf1)) # Len(_load_state(sf)) THEN 1 ELSE 0
    IN IF already_running(servers, nm, P)
       THEN StartResult(sf1, P, nm, "AlreadyRunning", 0, <<>>, NoName,
                        StartMsg("AlreadyRunning", nm, Get(servers, nm).pid, errlog),
                        cleaned)
       ELSE IF p = 0
       THEN StartResult(sf1, P, nm, "Failed", 0, <<>>, NoName,
                        StartMsg("Failed", nm, 0, errlog), cleaned)
       ELSE LET server == ServerProcess(nm, command, p, now, LOG_DIR \o nm \o DotLog,
                                        errlog, IF cwd # NoName THEN cwd ELSE here)
                P1 == Popen(P, p, nm, command)
                servers1 == Put(servers, server)
                P2 == IF exited THEN Reap(P1, p) ELSE P1
            IN IF ~is_running(server, P2)
               THEN StartResult(_save_state(servers1), P2, nm, "StartupFailed", p,
                                command, server.cwd,
                                StartMsg("StartupFailed", nm, p, errlog), cleaned + 1)
               ELSE StartResult(_save_state(servers1), P2, nm, "Started", p,
                                command, server.cwd, StartMsg("Started", nm, p, errlog),
                                cleaned + 1)

\* ok: Popen succeeds (it raises when ok is false, or when no pid is left);
\* exited: the process exits during the 0.5 s before the verification
DaemonManager_start(sf, P, now, here, command, name, cwd, ok, exited) ==
    LET sf1 == _clean_dead_processes(sf, P)
        nm == IF name = NoName THEN stem(command[1]) ELSE name
        servers == _load_state(sf1)
        p == IF ok THEN NextPid(P) ELSE 0
        errlog == LOG_DIR \o nm \o ErrorLog
        cleaned == IF Len(_load_state(sf1)) # Len(_load_state(sf)) THEN 1 ELSE 0
    IN IF already_running(servers, nm, P)
       THEN StartResult(sf1, P, nm, "AlreadyRunning", 0, <<>>, NoName,
                        StartMsg("AlreadyRunning", nm, Get(servers, nm).pid, errlog),
                        cleaned)
       ELSE IF p = 0
       THEN StartResult(sf1, P, nm, "Failed", 0, <<>>, NoName,
                        StartMsg("Failed", nm, 0, errlog), cleaned)
       ELSE LET server == ServerProcess(nm, command, p, now, LOG_DIR \o nm \o DotLog,
                                        errlog, IF cwd # NoName THEN cwd ELSE here)
                P1 == Popen(P, p, nm, command)
                servers1 == Put(servers, server)
                P2 == IF exited THEN Reap(P1, p) ELSE P1
            IN IF ~is_running(server, P2)
               THEN StartResult(_save_state(Del(servers1, nm)), P2, nm, "StartupFailed", p,
                                command, server.cwd,
                                StartMsg("StartupFailed", nm, p, errlog), cleaned + 2)
               ELSE StartResult(_save_state(servers1), P2, nm, "Started", p,
                                command, server.cwd, StartMsg("Started", nm, p, errlog),
                                cleaned + 1)

StopResult(file, P, res, exc, sigs, polls) ==
    [file |-> file, procs |-> P, res |-> res, exc |-> exc, sigs |-> sigs,
     polls |-> polls]

StopOk(res) == res \in {"CleanedUp", "Stopped"}

\* the message of stop's (success, message) result; str(e) of the psutil exceptions
ExcText(exc) ==
    IF exc = "NoSuchProcess"
    THEN <<"p", "r", "o", "c", "e", "s", "s", " ", "n", "o", " ", "l", "o", "n", "g",
           "e", "r", " ", "e", "x", "i", "s", "t", "s">>
    ELSE <<>>

StopMsg(res, exc, name) ==
    CASE res = "NotFound" ->
             <<"S", "e", "r", "v", "e", "r", " ", "'">> \o name
             \o <<"'", " ", "n", "o", "t", " ", "f", "o", "u", "n", "d">>
      [] res = "CleanedUp" ->
             <<"S", "e", "r", "v", "e", "r", " ", "'">> \o name
             \o <<"'", " ", "i", "s", " ", "n", "o", "t", " ", "r", "u", "n", "n", "i",
                  "n", "g", " ", "(", "c", "l", "e", "a", "n", "e", "d", " ", "u", "p",
                  " ", "s", "t", "a", "t", "e", ")">>
      [] res = "Stopped" -> <<"S", "t", "o", "p", "p", "e", "d", " ">> \o name
      [] OTHER ->
             <<"F", "a", "i", "l", "e", "d", " ", "t", "o", " ", "s", "t", "o", "p", " ",
               "s", "e", "r", "v", "e", "r", ":", " ">> \o ExcText(exc)

\* the graceful phase without the kill that follows the wait
Graceful_no_kill(sf, removed, server, P0, env) ==
    LET pid == server.pid
    IN IF env.race = "late"
       THEN StopResult(sf, Reap(P0, pid), "Failed", "NoSuchProcess", <<>>, 0)
       ELSE IF P0[pid].denied
       THEN StopResult(sf, P0, "Failed", "AccessDenied", <<>>, 0)
       ELSE LET dies == env.death <= GracePolls
                polls == IF dies THEN env.death ELSE GracePolls
                P1 == IF dies THEN Reap(P0, pid) ELSE P0
            IN StopResult(removed, P1, "Stopped", "", <<TERM(pid)>>, polls)

\* the graceful phase of stop: terminate(), then up to GracePolls sleeps
Graceful(sf, removed, server, P0, env) ==
    LET pid == server.pid
    IN IF env.race = "late"
       THEN StopResult(sf, Reap(P0, pid), "Failed", "NoSuchProcess", <<>>, 0)
       ELSE IF P0[pid].denied
       THEN StopResult(sf, P0, "Failed", "AccessDenied", <<>>, 0)
       ELSE LET dies == env.death <= GracePolls
                polls == IF dies THEN env.death ELSE GracePolls
                P1 == IF dies THEN Reap(P0, pid) ELSE P0
            IN IF is_running(server, P1)
               THEN StopResult(removed, Killed(P1, pid, env.survives), "Stopped", "",
                               <<TERM(pid), KILL(pid)>>, polls)
               ELSE StopResult(removed, P1, "Stopped", "", <<TERM(pid)>>, polls)

\* stop that ignores `force` and runs the graceful phase
Forced_graceful(sf, removed, server, P0, env) ==
    LET pid == server.pid
    IN IF env.race = "late"
       THEN StopResult(sf, Reap(P0, pid), "Failed", "NoSuchProcess", <<>>, 0)
       ELSE IF P0[pid].denied
       THEN StopResult(sf, P0, "Failed", "AccessDenied", <<>>, 0)
       ELSE IF env.death <= GracePolls
       THEN StopResult(removed, Reap(P0, pid), "Stopped", "", <<TERM(pid)>>, env.death)
       ELSE StopResult(removed, Reap(P0, pid), "Stopped", "",
                       <<TERM(pid), KILL(pid)>>, GracePolls)

\* the forced phase alone (force=True)
Forced(sf, removed, server, P0, env) ==
    LET pid == server.pid
        P1 == IF env.race = "late" THEN Reap(P0, pid) ELSE P0
    IN IF ~is_running(server, P1)
       THEN StopResult(removed, P1, "Stopped", "", <<>>, 0)
       ELSE IF P1[pid].denied
       THEN StopResult(sf, P1, "Failed", "AccessDenied", <<>>, 0)
       ELSE StopResult(removed, Killed(P1, pid, env.survives), "Stopped", "",
                       <<KILL(pid)>>, 0)

\* stop that writes the registry without the record before it signals
DaemonManager_stop_removing_first(sf, P, name, force, env) ==
    LET servers == _load_state(sf)
    IN IF name \notin Keys(servers)
       THEN StopResult(sf, P, "NotFound", "", <<>>, 0)
       ELSE LET server == Get(servers, name)
                removed == _save_state(Del(servers, name))
            IN IF ~is_running(server, P)
               THEN StopResult(removed, P, "CleanedUp", "", <<>>, 0)
               ELSE LET P0 == IF env.race = "early" THEN Reap(P, server.pid) ELSE P
                    IN IF ~Exists(P0, server.pid)
                       THEN StopResult(removed, P0, "Failed", "NoSuchProcess", <<>>, 0)
                       ELSE IF ~force
                       THEN Graceful(removed, removed, server, P0, env)
                       ELSE Forced(removed, removed, server, P0, env)

DaemonManager_stop(sf, P, name, force, env) ==
    LET servers == _load_state(sf)
    IN IF name \notin Keys(servers)
       THEN StopResult(sf, P, "NotFound", "", <<>>, 0)
       ELSE LET server == Get(servers, name)
                removed == _save_state(Del(servers, name))
            IN IF ~is_running(server, P)
               THEN StopResult(removed, P, "CleanedUp", "", <<>>, 0)
               ELSE LET P0 == IF env.race = "early" THEN Reap(P, server.pid) ELSE P
                    IN IF ~Exists(P0, server.pid)
                       THEN StopResult(sf, P0, "Failed", "NoSuchProcess", <<>>, 0)
                       ELSE IF ~force
                       THEN Graceful(sf, removed, server, P0, env)
                       ELSE Forced(sf, removed, server, P0, env)

NOT_RUNNING == <<"n", "o", "t", " ", "r", "u", "n", "n", "i", "n", "g">>

RestartResult(file, P, res, stopRes, sigs, polls, pid, command, cwd) ==
    [file |-> file, procs |-> P, res |-> res, stopRes |-> stopRes, sigs |-> sigs,
     polls |-> polls, pid |-> pid, command |-> command, cwd |-> cwd]

\* restart that goes on to start whatever the stop phase returned
stop_failed_never(s, name) == FALSE

\* `not stop_success and "not running" not in stop_msg`
stop_failed(s, name) ==
    ~StopOk(s.res) /\ ~IsSub(NOT_RUNNING, StopMsg(s.res, s.exc, name))

\* `command=server.command, name=name, cwd=server.cwd`
restart_args(server) == [command |-> server.command, cwd |-> server.cwd]

DaemonManager_restart(sf, P, now, here, name, env, ok, exited) ==
    LET servers == _load_state(sf)
    IN IF name \notin Keys(servers)
       THEN RestartResult(sf, P, "NotFound", "", <<>>, 0, 0, <<>>, NoName)
       ELSE Only({
              IF stop_failed(s, name)
              THEN RestartResult(s.file, s.procs, "StopFailed", s.res, s.sigs, s.polls,
                                 0, <<>>, NoName)
              ELSE Only({RestartResult(t.file, t.procs, t.res, s.res, s.sigs, s.polls,
                                       t.pid, t.command, t.cwd) :
                         t \in {DaemonManager_start(s.file, s.procs, now, here,
                                                    a.command, name, a.cwd, ok,
                                                    exited)}}) :
              s \in {DaemonManager_stop(sf, P, name, FALSE, env)},
              a \in {restart_args(Get(servers, name))}})

\* returns the state file after the call and the records listed
DaemonManager_list_servers(sf, P) ==
    LET sf1 == _clean_dead_processes(sf, P)
    IN [file |-> sf1, listed |-> _load_state(sf1)]

\* the loop of stop_all over names, from the state file sf and the process table P;
\* envs[i] is what the OS does during the i-th stop
RECURSIVE StopAllLoop(_, _, _, _, _, _)
StopAllLoop(names, sf, P, envs, results, sigs) ==
    IF names = <<>>
    THEN [file |-> sf, procs |-> P, results |-> results, sigs |-> sigs]
    ELSE Only({StopAllLoop(Tail(names), s.file, s.procs, Tail(envs),
                           Append(results, <<Head(names), s.res>>), sigs \o s.sigs) :
               s \in {DaemonManager_stop(sf, P, Head(names), FALSE, Head(envs))}})

\* stop_all that gives up after the first name
DaemonManager_stop_all_first_only(sf, P, envs) ==
    LET servers == _load_state(sf)
        names == [i \in 1..Len(servers) |-> servers[i].name]
    IN StopAllLoop(IF names = <<>> THEN <<>> ELSE <<names[1]>>, sf, P, envs, <<>>, <<>>)

DaemonManager_stop_all(sf, P, envs) ==
    LET servers == _load_state(sf)
        names == [i \in 1..Len(servers) |-> servers[i].name]
    IN StopAllLoop(names, sf, P, envs, <<>>, <<>>)

----------------------------------------------------------------------------
(* utils.py *)

Whitespace == {" ", "\t", "\n"}

Chars(s) == {s[i] : i \in 1..Len(s)}

\* str.split(): the maximal runs of non-whitespace characters
RECURSIVE SplitAcc(_, _, _)
SplitAcc(s, cur, acc) ==
    IF s = <<>> THEN (IF cur = <<>> THEN acc ELSE Append(acc, cur))
    ELSE IF Head(s) \in Whitespace
    THEN SplitAcc(Tail(s), <<>>, IF cur = <<>> THEN acc ELSE Append(acc, cur))
    ELSE SplitAcc(Tail(s), Append(cur, Head(s)), acc)

split(s) == SplitAcc(s, <<>>, <<>>)

SafeChars ==
    {"a", "b", "c", "d", "e", "f", "g", "h", "i", "j", "k", "l", "m", "n", "o", "p",
     "q", "r", "s", "t", "u", "v", "w", "x", "y", "z", "A", "B", "C", "D", "E", "F",
     "G", "H", "I", "J", "K", "L", "M", "N", "O", "P", "Q", "R", "S", "T", "U", "V",
     "W", "X", "Y", "Z", "0", "1", "2", "3", "4", "5", "6", "7", "8", "9", "-", "_"}

ScriptExts == {<<".", "p", "y">>, <<".", "j", "s">>, <<".", "r", "b">>, <<".", "s", "h">>}

\* the derivation without the search for a clean part: always the first part
sanitize_name_first_part(name) ==
    LET parts == split(name)
        n1 == IF " " \in Chars(name) THEN parts[1] ELSE name
        n2 == basename(n1)
        n3 == IF \E e \in ScriptExts : EndsWith(n2, e) THEN stem(n2) ELSE n2
    IN [i \in 1..Len(n3) |-> IF n3[i] \in SafeChars THEN n3[i] ELSE "_"]

\* what a call gives that raised IndexError (`parts[0]` of an empty list)
IndexError == <<"IndexError">>

sanitize_name(name) ==
    LET parts == split(name)
        clean == {i \in 1..Len(parts) : "=" \notin Chars(parts[i]) /\ parts[i][1] # "-"}
        n1 == IF " " \in Chars(name)
              THEN (IF clean # {}
                    THEN parts[CHOOSE i \in clean : \A j \in clean : i <= j]
                    ELSE parts[1])
              ELSE name
        n2 == basename(n1)
        n3 == IF \E e \in ScriptExts : EndsWith(n2, e) THEN stem(n2) ELSE n2
    IN IF " " \in Chars(name) /\ parts = <<>> THEN IndexError
       ELSE [i \in 1..Len(n3) |-> IF n3[i] \in SafeChars THEN n3[i] ELSE "_"]

\* is_process_running: a process exists at pid (the model has no zombies)
is_process_running(P, pid) == Exists(P, pid)

\* get_process_info: found is FALSE for the result None; of the fields only
\* cmdline is kept, the one the callers read back
get_process_info(P, pid) ==
    IF ~Exists(P, pid) THEN [found |-> FALSE, pid |-> pid, cmdline |-> <<>>]
    ELSE [found |-> TRUE, pid |-> pid, cmdline |-> Join(P[pid].cmdline, SP)]

\* the pids of S in increasing order
RECURSIVE Ascending(_)
Ascending(S) ==
    IF S = {} THEN <<>>
    ELSE LET m == CHOOSE x \in S : \A y \in S : x <= y
         IN <<m>> \o Ascending(S \ {m})

\* psutil children(recursive=True): the descendants of pid, nearest first
RECURSIVE Descendants(_, _, _)
Descendants(P, roots, seen) ==
    LET kids == {q \in DOMAIN P : Exists(P, q) /\ P[q].ppid \in roots} \ seen
    IN IF kids = {} THEN <<>>
       ELSE Ascending(kids) \o Descendants(P, kids, seen \cup kids)

children(P, pid) == Descendants(P, {pid}, {pid})

\* the graceful signals delivered to targets before one raised AccessDenied
RECURSIVE TermUntilDenied(_, _)
TermUntilDenied(P, targets) ==
    IF targets = <<>> \/ P[Head(targets)].denied THEN <<>>
    ELSE <<TERM(Head(targets))>> \o TermUntilDenied(P, Tail(targets))

Signalled(sigs) == {sigs[i][2] : i \in 1..Len(sigs)}

KillResult(P, ok, sigs, expired) ==
    [procs |-> P, ok |-> ok, sigs |-> sigs, expired |-> expired]

\* env.race as in StopEnvs; env.obey: the pids that are gone within `timeout`
\* once they have the graceful signal (wait_procs reports the others alive);
\* env.survives: the root process survives the forced kill
kill_process_tree(P, pid, timeout, env) ==
    LET P0 == IF env.race = "early" THEN Reap(P, pid) ELSE P
    IN IF ~Exists(P0, pid)
       THEN KillResult(P0, FALSE, <<>>, FALSE)
       ELSE LET kids == children(P0, pid)
                sent == TermUntilDenied(P0, kids)
                P1 == ReapAll(P0, Signalled(sent) \cap env.obey)
            IN IF Len(sent) < Len(kids)
               THEN KillResult(P1, FALSE, sent, FALSE)
               ELSE IF env.race = "late"
               THEN KillResult(Reap(P1, pid), FALSE, sent, FALSE)
               ELSE IF P0[pid].denied
               THEN KillResult(P1, FALSE, sent, FALSE)
               ELSE LET targets == kids \o <<pid>>
                        alive == SelectSeq(targets, LAMBDA q : q \notin env.obey)
                        kills == [i \in 1..Len(alive) |-> KILL(alive[i])]
                        P2 == ReapAll(P0, Signalled(sent))
                    IN KillResult(Killed(P2, pid, env.survives /\ pid \notin env.obey),
                                  TRUE, sent \o <<TERM(pid)>> \o kills, alive # <<>>)

----------------------------------------------------------------------------
(* process.py: ProcessManager.  pids_dir is a function from the key of a PID *)
(* file (its stem) to the pid written in it.                                  *)

EmptyDir == [k \in {} |-> 0]

Unlink(files, key) == [k \in DOMAIN files \ {key} |-> files[k]]

Write(files, key, pid) ==
    [k \in DOMAIN files \cup {key} |-> IF k = key THEN pid ELSE files[k]]

BIN_SH == <<"/", "b", "i", "n", "/", "s", "h">>
DashC == <<"-", "c">>

\* the words of a shell command after its leading NAME=value assignments
RECURSIVE DropAssignments(_)
DropAssignments(words) ==
    IF words # <<>> /\ "=" \in Chars(Head(words)) THEN DropAssignments(Tail(words))
    ELSE words

\* the command line of the process Popen(command, shell=True) returns: the shell
\* itself, or the command when the shell replaces itself by it (execs)
ShellCmdline(command, execs) ==
    IF execs THEN DropAssignments(split(command))
    ELSE <<BIN_SH, DashC, command>>

PMStartResult(files, P, name, res, pid, command) ==
    [files |-> files, procs |-> P, name |-> name, res |-> res, pid |-> pid,
     command |-> command]

\* ok: the child's Popen succeeds; execs: see ShellCmdline; exited: the process
\* exits during start_verify_delay
ProcessManager_start(files, P, command, name, ok, execs, exited) ==
    IF command = <<>>
    THEN PMStartResult(files, P, name, "NoCommand", 0, <<>>)
    ELSE LET nm == IF name = NoName THEN sanitize_name(command) ELSE name
         IN IF nm \in DOMAIN files /\ is_process_running(P, files[nm])
            THEN PMStartResult(files, P, nm, "AlreadyRunning", 0, <<>>)
            ELSE LET files1 == Unlink(files, nm)
                     p == IF ok THEN NextPid(P) ELSE 0
                 IN IF p = 0
                    THEN PMStartResult(files1, P, nm, "Failed", 0, <<>>)
                    ELSE LET P1 == [P EXCEPT ![p] =
                                       [kind |-> "pm", owner |-> nm,
                                        cmdline |-> ShellCmdline(command, execs),
                                        denied |-> FALSE, ppid |-> 0, cmd |-> command]]
                             files2 == Write(files1, nm, p)
                             P2 == IF exited THEN Reap(P1, p) ELSE P1
                         IN IF is_process_running(P2, files2[nm])
                            THEN PMStartResult(files2, P2, nm, "Started", p, command)
                            ELSE PMStartResult(files2, P2, nm, "Failed", p, command)

PMStopResult(files, P, name, res, sigs, expired) ==
    [files |-> files, procs |-> P, name |-> name, res |-> res, sigs |-> sigs,
     expired |-> expired]

\* the value ProcessManager.stop returns
PMStopOk(res) == res = "Stopped"

ProcessManager_stop(files, P, name, timeout, env) ==
    LET nm == sanitize_name(name)
    IN IF nm \notin DOMAIN files
       THEN PMStopResult(files, P, nm, "NoPidFile", <<>>, FALSE)
       ELSE LET pid == files[nm]
            IN IF ~is_process_running(P, pid)
               THEN PMStopResult(Unlink(files, nm), P, nm, "StaleCleaned", <<>>, FALSE)
               ELSE Only({
                      IF k.ok
                      THEN PMStopResult(Unlink(files, nm), k.procs, nm, "Stopped",
                                        k.sigs, k.expired)
                      ELSE PMStopResult(files, k.procs, nm, "KillFailed", k.sigs,
                                        k.expired) :
                      k \in {kill_process_tree(P, pid, timeout, env)}})

PMRestartResult(files, P, name, res, stopRes, sigs, expired, pid, command) ==
    [files |-> files, procs |-> P, name |-> name, res |-> res, stopRes |-> stopRes,
     sigs |-> sigs, expired |-> expired, pid |-> pid, command |-> command]

ProcessManager_restart(files, P, name, timeout, env, ok, execs, exited) ==
    LET nm == sanitize_name(name)
    IN IF nm \notin DOMAIN files
       THEN PMRestartResult(files, P, nm, "NoPidFile", "", <<>>, FALSE, 0, <<>>)
       ELSE LET info == get_process_info(P, files[nm])
            IN IF ~info.found
               THEN PMRestartResult(files, P, nm, "NoInfo", "", <<>>, FALSE, 0, <<>>)
               ELSE Only({
                      IF PMStopOk(s.res)
                      THEN Only({PMRestartResult(t.files, t.procs, nm, t.res, s.res,
                                                 s.sigs, s.expired, t.pid, t.command) :
                                 t \in {ProcessManager_start(s.files, s.procs,
                                                             info.cmdline, nm, ok, execs,
                                                             exited)}})
                      ELSE PMRestartResult(s.files, s.procs, nm, "StopFailed", s.res,
                                           s.sigs, s.expired, 0, <<>>) :
                      s \in {ProcessManager_stop(files, P, nm, timeout, env)}})

\* returns the directory after the call and the names reported as running
ProcessManager_status(files, P) ==
    LET running == {k \in DOMAIN files : get_process_info(P, files[k]).found}
    IN [files |-> [k \in running |-> files[k]], listed |-> running]

----------------------------------------------------------------------------
(* Inputs of the calls, and the unrelated processes of the machine *)

py == <<"p", "y">>

\* sys.executable, here a bare interpreter name
sys_executable == py

DotPy == <<".", "p", "y">>

\* cli.py start: a Python script gets the interpreter put in front of it
command_list(command) ==
    IF EndsWith(command[1], DotPy) THEN <<sys_executable>> \o command ELSE command

\* the arguments of `bd start`: "py s" and the script "j.py"
Argvs == {<<py, <<"s">>>>, <<<<"j", ".", "p", "y">>>>}

\* DaemonManager commands are argument vectors
Commands == {command_list(argv) : argv \in Argvs}

\* explicit names; NoName is `name=None`, the name is then derived from the command
Names == {<<"a">>}
DerivedNames == {stem(c[1]) : c \in Commands}

\* the names a user stops or restarts: the names given, the names start derives,
\* and the stems of the scripts started
StopNames == Names \cup DerivedNames \cup {stem(argv[1]) : argv \in Argvs}

\* processes that no manager launched: "py x" shares the part "py" with the
\* commands, "vi" shares nothing; denied: it belongs to another user, and a
\* signal sent to it raises AccessDenied
Foreigners ==
    {[cmdline |-> <<py, <<"x">>>>, denied |-> FALSE],
     [cmdline |-> <<py, <<"x">>>>, denied |-> TRUE],
     [cmdline |-> <<<<"v", "i">>>>, denied |-> FALSE]}

----------------------------------------------------------------------------
(* The record of the last call.  target, tkind, towner and tcmd describe the  *)
(* process found at the recorded pid when the call began; ownLive says        *)
(* whether a process this manager launched under the name was alive then.     *)
(* race and deaf say what the OS did during a stop: the race of StopEnvs, and *)
(* the signalled pids that ignore the graceful signal.  given and argv are    *)
(* the name and the command a start was called with, msg its message.         *)

NoCall ==
    [mgr |-> "", op |-> "", name |-> NoName, force |-> FALSE,
     res |-> "", stopRes |-> "", sigs |-> <<>>, polls |-> 0, expired |-> FALSE,
     launch |-> 0, lcmd |-> <<>>, lcwd |-> NoName, listed |-> {}, results |-> <<>>,
     target |-> 0, tkind |-> "free", towner |-> NoName, tcmd |-> <<>>,
     ownLive |-> FALSE, race |-> "", deaf |-> {}, given |-> NoName, argv |-> <<>>,
     msg |-> <<>>, writes |-> 0]

OwnLive(P, mgr, name) ==
    \E q \in DOMAIN P : P[q].kind = mgr /\ P[q].owner = name

\* the number of _save_state calls of a stop or a list_servers that found the
\* state file before and left the state file after: each of them saves at one
\* place only, and what it saves there has fewer entries than what it loaded
Saves(before, after) ==
    IF Len(_load_state(after)) # Len(_load_state(before)) THEN 1 ELSE 0

\* a call record of manager mgr, with what was at pid when the call began
Call(mgr, op, name, pid) ==
    [NoCall EXCEPT !.mgr = mgr, !.op = op, !.name = name,
                   !.target = pid,
                   !.tkind = IF Exists(procs, pid) THEN procs[pid].kind ELSE "free",
                   !.towner = IF Exists(procs, pid) THEN procs[pid].owner ELSE NoName,
                   !.tcmd = IF Exists(procs, pid) THEN procs[pid].cmd ELSE <<>>,
                   !.ownLive = OwnLive(procs, mgr, name)]

\* the signalled pids that ignore the graceful signal under a DaemonManager stop
\* environment
Deaf(sigs, env) == IF env.death = Never THEN Signalled(sigs) ELSE {}

\* the race of a stop that got as far as psutil.Process(pid)
Race(res, env) ==
    IF res \in {"Stopped", "Failed", "KillFailed"} THEN env.race ELSE ""

\* the pid recorded under name in the state file, None when there is no record
RecordedPid(sf, name) ==
    LET servers == _load_state(sf)
    IN IF name \in Keys(servers) THEN Get(servers, name).pid ELSE None

----------------------------------------------------------------------------
(* The environment *)

\* a process exits on its own
Exit(pid) ==
    /\ lastCall = NoCall
    /\ Exists(procs, pid)
    /\ procs' = Reap(procs, pid)
    /\ UNCHANGED <<manager, state_file, pid_files, clock, lastCall>>
    /\ UNCHANGED others

\* an unrelated process appears at a free pid (this is how a pid gets reused)
Spawn(pid, f) ==
    /\ lastCall = NoCall
    /\ ~Exists(procs, pid)
    /\ procs' = [procs EXCEPT ![pid] = [kind |-> "foreign", owner |-> NoName,
                                        cmdline |-> f.cmdline, denied |-> f.denied,
                                        ppid |-> 0, cmd |-> <<>>]]
    /\ UNCHANGED <<manager, state_file, pid_files, clock, lastCall>>
    /\ UNCHANGED others

\* a running process forks a child
Fork(pid) ==
    /\ lastCall = NoCall
    /\ Exists(procs, pid)
    /\ NextPid(procs) # 0
    /\ procs' = [procs EXCEPT ![NextPid(procs)] =
                    [kind |-> "child", owner |-> NoName, cmdline |-> procs[pid].cmdline,
                     denied |-> procs[pid].denied, ppid |-> pid, cmd |-> <<>>]]
    /\ UNCHANGED <<manager, state_file, pid_files, clock, lastCall>>
    /\ UNCHANGED others

\* cli.py: the command prints the outcome of its one manager call and exits
Report ==
    /\ lastCall # NoCall
    /\ lastCall' = NoCall
    /\ UNCHANGED <<manager, procs, state_file, pid_files, clock>>
    /\ UNCHANGED others

----------------------------------------------------------------------------
(* DaemonManager calls *)

DStart(argv, name, cwd, here, ok, exited) ==
    /\ manager = "dm"
    /\ lastCall = NoCall
    /\ clock < MaxClock
    /\ \E r \in {DaemonManager_start(state_file, procs, clock, here, command_list(argv),
                                    name, cwd, ok, exited)} :
          /\ state_file' = r.file
          /\ procs' = r.procs
          /\ clock' = IF r.pid # 0 THEN clock + 1 ELSE clock
          /\ lastCall' = [Call("dm", "start", r.name, RecordedPid(state_file, r.name))
                            EXCEPT !.res = r.res, !.launch = r.pid, !.lcmd = r.command,
                                   !.lcwd = r.cwd, !.given = name, !.msg = r.msg,
                                   !.writes = r.writes,
                                   !.argv = IF r.pid # 0 THEN argv ELSE <<>>]
    /\ UNCHANGED <<manager, pid_files>>
    /\ UNCHANGED others

DStop(name, force, env) ==
    /\ manager = "dm"
    /\ lastCall = NoCall
    /\ \E r \in {DaemonManager_stop(state_file, procs, name, force, env)} :
          /\ state_file' = r.file
          /\ procs' = r.procs
          /\ lastCall' = [Call("dm", "stop", name, RecordedPid(state_file, name))
                            EXCEPT !.res = r.res, !.sigs = r.sigs, !.polls = r.polls,
                                   !.force = force, !.race = Race(r.res, env),
                                   !.deaf = Deaf(r.sigs, env),
                                   !.writes = Saves(state_file, r.file)]
    /\ UNCHANGED <<manager, pid_files, clock>>
    /\ UNCHANGED others

DRestart(name, here, env, ok, exited) ==
    /\ manager = "dm"
    /\ lastCall = NoCall
    /\ clock < MaxClock
    /\ \E r \in {DaemonManager_restart(state_file, procs, clock, here, name, env, ok,
                                      exited)} :
          /\ state_file' = r.file
          /\ procs' = r.procs
          /\ clock' = IF r.pid # 0 THEN clock + 1 ELSE clock
          /\ lastCall' = [Call("dm", "restart", name, RecordedPid(state_file, name))
                            EXCEPT !.res = r.res, !.stopRes = r.stopRes,
                                   !.sigs = r.sigs, !.polls = r.polls,
                                   !.launch = r.pid, !.lcmd = r.command,
                                   !.lcwd = r.cwd, !.race = Race(r.stopRes, env),
                                   !.deaf = Deaf(r.sigs, env)]
    /\ UNCHANGED <<manager, pid_files>>
    /\ UNCHANGED others

DList ==
    /\ manager = "dm"
    /\ lastCall = NoCall
    /\ \E r \in {DaemonManager_list_servers(state_file, procs)} :
          /\ state_file' = r.file
          /\ lastCall' = [Call("dm", "list_servers", NoName, None)
                            EXCEPT !.listed = {<<r.listed[i].name, r.listed[i].pid>> :
                                                  i \in 1..Len(r.listed)},
                                   !.writes = Saves(state_file, r.file)]
    /\ UNCHANGED <<manager, procs, pid_files, clock>>
    /\ UNCHANGED others

DStopAll(envs) ==
    /\ manager = "dm"
    /\ lastCall = NoCall
    /\ Len(envs) = Len(_load_state(state_file))
    /\ \E r \in {DaemonManager_stop_all(state_file, procs, envs)} :
          /\ state_file' = r.file
          /\ procs' = r.procs
          /\ lastCall' = [Call("dm", "stop_all", NoName, None)
                            EXCEPT !.results = r.results, !.sigs = r.sigs]
    /\ UNCHANGED <<manager, pid_files, clock>>
    /\ UNCHANGED others

RECURSIVE SeqsOf(_, _)
SeqsOf(S, n) ==
    IF n = 0 THEN {<<>>}
    ELSE {Append(q, x) : q \in SeqsOf(S, n - 1), x \in S}

----------------------------------------------------------------------------
(* ProcessManager calls *)

\* ProcessManager commands are shell strings
PortCommand == <<"P", "O", "R", "T", "=", "8", "0", "8", "0", " ", "n", "o", "d", "e", " ", "s", "e", "r", "v", "e", "r", ".", "j", "s">>

ShellCommands == {<<"p", "y", " ", "s">>, PortCommand}

DefaultTimeout == 5

PMStopEnvs ==
    {[race |-> r, obey |-> S, survives |-> FALSE] :
        r \in {"none", "early", "late"}, S \in SUBSET Pids}
    \cup {[race |-> "none", obey |-> {}, survives |-> TRUE]}

FilePid(files, key) == IF key \in DOMAIN files THEN files[key] ELSE None

PStart(command, name, ok, execs, exited) ==
    /\ manager = "pm"
    /\ lastCall = NoCall
    /\ clock < MaxClock
    /\ \E r \in {ProcessManager_start(pid_files, procs, command, name, ok, execs,
                                     exited)} :
          /\ pid_files' = r.files
          /\ procs' = r.procs
          /\ lastCall' = [Call("pm", "start", r.name, FilePid(pid_files, r.name))
                            EXCEPT !.res = r.res, !.launch = r.pid, !.lcmd = r.command,
                                   !.given = name]
          /\ clock' = IF r.pid # 0 THEN clock + 1 ELSE clock
    /\ UNCHANGED <<manager, state_file>>
    /\ UNCHANGED others

PStop(name, env) ==
    /\ manager = "pm"
    /\ lastCall = NoCall
    /\ \E r \in {ProcessManager_stop(pid_files, procs, name, DefaultTimeout, env)} :
          /\ pid_files' = r.files
          /\ procs' = r.procs
          /\ lastCall' = [Call("pm", "stop", r.name, FilePid(pid_files, r.name))
                            EXCEPT !.res = r.res, !.sigs = r.sigs,
                                   !.expired = r.expired, !.race = Race(r.res, env),
                                   !.deaf = Signalled(r.sigs) \ env.obey]
    /\ UNCHANGED <<manager, state_file, clock>>
    /\ UNCHANGED others

PRestart(name, env, ok, execs, exited) ==
    /\ manager = "pm"
    /\ lastCall = NoCall
    /\ clock < MaxClock
    /\ \E r \in {ProcessManager_restart(pid_files, procs, name, DefaultTimeout, env, ok,
                                       execs, exited)} :
          /\ pid_files' = r.files
          /\ procs' = r.procs
          /\ lastCall' = [Call("pm", "restart", r.name, FilePid(pid_files, r.name))
                            EXCEPT !.res = r.res, !.stopRes = r.stopRes,
                                   !.sigs = r.sigs, !.expired = r.expired,
                                   !.launch = r.pid, !.lcmd = r.command,
                                   !.race = Race(r.stopRes, env),
                                   !.deaf = Signalled(r.sigs) \ env.obey]
          /\ clock' = IF r.pid # 0 THEN clock + 1 ELSE clock
    /\ UNCHANGED <<manager, state_file>>
    /\ UNCHANGED others

PStatus ==
    /\ manager = "pm"
    /\ lastCall = NoCall
    /\ \E r \in {ProcessManager_status(pid_files, procs)} :
          /\ pid_files' = r.files
          /\ lastCall' = [Call("pm", "status", NoName, None)
                            EXCEPT !.listed = {<<k, pid_files[k]>> : k \in r.listed}]
    /\ UNCHANGED <<manager, procs, state_file, clock>>
    /\ UNCHANGED others

----------------------------------------------------------------------------
(* One manager, DaemonManager or ProcessManager, on a machine with unrelated *)
(* processes                                                                 *)

\* the names given to ProcessManager.start, one of them with a character that
\* sanitize_name replaces: "a.b"
PMGiven == Names \cup {<<"a", ".", "b">>}

PMNames == PMGiven \cup {sanitize_name(c) : c \in ShellCommands}

\* the state file found at construction when it is not missing: text that is not
\* JSON, an entry without its timestamp, an entry with a timestamp that
\* fromisoformat rejects
Stored ==
    to_dict(ServerProcess(<<"a">>, <<py, <<"s">>>>, 1, 0, LOG_DIR \o <<"a">> \o DotLog,
                          LOG_DIR \o <<"a">> \o ErrorLog, <<"/", "h">>))

Unreadable ==
    {[exists |-> TRUE, json |-> FALSE, data |-> <<>>],
     [exists |-> TRUE, json |-> TRUE,
      data |-> <<Stored, [name |-> <<"b">>, command |-> <<py>>, pid |-> 2]>>],
     [exists |-> TRUE, json |-> TRUE,
      data |-> <<[Stored EXCEPT !.started_at = <<"?", 0>>]>>]}

\* the two command lines, and one that runs no call
Invocations == {1, 2}

NoInv ==
    [op |-> "none", name |-> NoName, pc |-> "idle", servers |-> <<>>,
     tosave |-> <<>>, ret |-> "idle", pid |-> 0, res |-> ""]

\* no _save_state has the store open
NoSave == [old |-> <<>>, new |-> <<>>]

\* no name derived yet
NoDerived == [from |-> <<>>, name |-> <<>>, done |-> FALSE]

\* no tail_log_file call is under way
NoTail ==
    [pc |-> "none", lines |-> 0, follow |-> FALSE, pos |-> 0, start |-> 0,
     seen |-> <<>>, first |-> 0, interrupted |-> FALSE]

Init ==
    /\ manager \in {"dm", "pm"}
    /\ procs = [p \in Pids |-> NoProc]
    /\ state_file \in {NoFile} \cup (IF manager = "dm" THEN Unreadable ELSE {})
    /\ pid_files = EmptyDir
    /\ clock = 0
    /\ lastCall = NoCall
    /\ log_text = <<>>
    /\ printed = <<>>
    /\ tail = NoTail
    /\ inv = [i \in Invocations |-> NoInv]
    /\ saving = NoSave
    /\ ptab = <<>>
    /\ ctty = {}
    /\ typed = <<>>
    /\ nwords = 0
    /\ derived = NoDerived

Next ==
    \/ \E pid \in Pids : Exit(pid)
    \/ \E pid \in Pids, f \in Foreigners : Spawn(pid, f)
    \/ \E pid \in Pids : Fork(pid)
    \/ Report
    \/ \E c \in Argvs, n \in Names \cup {NoName}, w \in CwdArgs, h \in Dirs,
          ok \in BOOLEAN, x \in BOOLEAN : DStart(c, n, w, h, ok, x)
    \/ \E n \in StopNames, f \in BOOLEAN, e \in StopEnvs : DStop(n, f, e)
    \/ \E n \in StopNames, h \in Dirs, e \in StopEnvs,
          ok \in BOOLEAN, x \in BOOLEAN : DRestart(n, h, e, ok, x)
    \/ DList
    \/ \E envs \in SeqsOf(StopEnvs, Len(_load_state(state_file))) : DStopAll(envs)
    \/ \E c \in ShellCommands, n \in PMGiven \cup {NoName}, ok \in BOOLEAN,
          execs \in BOOLEAN, x \in BOOLEAN : PStart(c, n, ok, execs, x)
    \/ \E n \in PMNames, e \in PMStopEnvs : PStop(n, e)
    \/ \E n \in PMNames, e \in PMStopEnvs, ok \in BOOLEAN, execs \in BOOLEAN,
          x \in BOOLEAN : PRestart(n, e, ok, execs, x)
    \/ PStatus

Spec == Init /\ [][Next]_vars

----------------------------------------------------------------------------
(* logger.py: tail_log_file.  The log file is a text, a sequence of         *)
(* characters; the process that owns the log appends to it character by     *)
(* character, so a reader can find a line that is not finished yet.         *)

MaxText == 4
MaxLines == 3

NL == "\n"

\* the characters a log is made of
LogChars == {"a", " ", NL}

\* str.rstrip(): the trailing whitespace is removed
RECURSIVE rstrip(_)
rstrip(s) ==
    IF s = <<>> THEN <<>>
    ELSE IF s[Len(s)] \in Whitespace THEN rstrip(SubSeq(s, 1, Len(s) - 1))
    ELSE s

\* f.readline() at offset pos: the characters up to and including the next line
\* end, or up to the end of the text; the empty string at the end of the text
readline(text, pos) ==
    IF pos >= Len(text) THEN <<>>
    ELSE LET ends == {i \in (pos + 1)..Len(text) : text[i] = NL}
             stop == IF ends = {} THEN Len(text)
                     ELSE CHOOSE i \in ends : \A j \in ends : i <= j
         IN SubSeq(text, pos + 1, stop)

\* f.readlines(): readline until the end of the text
RECURSIVE ReadFrom(_, _)
ReadFrom(text, pos) ==
    IF readline(text, pos) = <<>> THEN <<>>
    ELSE <<readline(text, pos)>> \o ReadFrom(text, pos + Len(readline(text, pos)))

readlines(text) == ReadFrom(text, 0)

\* the slice s[i:] of Python, i of either sign
SliceFrom(s, i) ==
    LET first == IF i < 0 THEN (IF Len(s) + i < 0 THEN 0 ELSE Len(s) + i)
                 ELSE (IF i > Len(s) THEN Len(s) ELSE i)
    IN SubSeq(s, first + 1, Len(s))

\* `file_lines[-lines:] if len(file_lines) > lines else file_lines`
last_lines(file_lines, lines) ==
    IF Len(file_lines) > lines THEN SliceFrom(file_lines, 0 - lines) ELSE file_lines

\* print(line.rstrip()) for each of the lines
Prints(lines) == [i \in 1..Len(lines) |-> rstrip(lines[i])]

StoppedFollowing ==
    <<NL, "S", "t", "o", "p", "p", "e", "d", " ", "f", "o", "l", "l", "o", "w", "i",
      "n", "g", " ", "l", "o", "g", " ", "f", "i", "l", "e", ".">>

\* the process that owns the log writes one more character
Write1(c) ==
    /\ Len(log_text) < MaxText
    /\ log_text' = Append(log_text, c)
    /\ UNCHANGED <<base, raceVars, detachVars, nameVars, printed, tail>>

\* tail_log_file(log_file, lines, follow) is called: it reads the whole file and
\* prints its last lines; seen is the text it read, first the number of prints
TailCall(lines, follow) ==
    /\ tail.pc = "none"
    /\ printed' = Prints(last_lines(readlines(log_text), lines))
    /\ tail' = [pc |-> IF follow THEN "open" ELSE "done", lines |-> lines,
                follow |-> follow, pos |-> 0, start |-> 0, seen |-> log_text,
                first |-> Len(printed'), interrupted |-> FALSE]
    /\ UNCHANGED <<base, raceVars, detachVars, nameVars, log_text>>

\* follow mode opens the file again and seeks to its end
SeekEnd ==
    /\ tail.pc = "open"
    /\ tail' = [tail EXCEPT !.pc = "read", !.pos = Len(log_text), !.start = Len(log_text)]
    /\ UNCHANGED <<base, raceVars, detachVars, nameVars, log_text, printed>>

\* one turn of the loop: readline, then print or sleep
ReadLine ==
    /\ tail.pc = "read"
    /\ \E line \in {readline(log_text, tail.pos)} :
          IF line # <<>>
          THEN /\ printed' = Append(printed, rstrip(line))
               /\ tail' = [tail EXCEPT !.pos = tail.pos + Len(line)]
          ELSE /\ tail' = [tail EXCEPT !.pc = "sleep"]
               /\ UNCHANGED printed
    /\ UNCHANGED <<base, raceVars, detachVars, nameVars, log_text>>

\* time.sleep(poll_interval) returns
Wake ==
    /\ tail.pc = "sleep"
    /\ tail' = [tail EXCEPT !.pc = "read"]
    /\ UNCHANGED <<base, raceVars, detachVars, nameVars, log_text, printed>>

\* KeyboardInterrupt inside the loop
Interrupt ==
    /\ tail.pc \in {"read", "sleep"}
    /\ printed' = Append(printed, StoppedFollowing)
    /\ tail' = [tail EXCEPT !.pc = "done", !.interrupted = TRUE]
    /\ UNCHANGED <<base, raceVars, detachVars, nameVars, log_text>>

InitTail ==
    /\ manager = "dm"
    /\ procs = [p \in Pids |-> NoProc]
    /\ state_file = NoFile
    /\ pid_files = EmptyDir
    /\ clock = 0
    /\ lastCall = NoCall
    /\ log_text = <<>>
    /\ printed = <<>>
    /\ tail = NoTail
    /\ inv = [i \in Invocations |-> NoInv]
    /\ saving = NoSave
    /\ ptab = <<>>
    /\ ctty = {}
    /\ typed = <<>>
    /\ nwords = 0
    /\ derived = NoDerived

NextTail ==
    \/ \E c \in LogChars : Write1(c)
    \/ \E n \in 0..MaxLines, f \in BOOLEAN : TailCall(n, f)
    \/ SeekEnd
    \/ ReadLine
    \/ Wake
    \/ Interrupt

SpecTail == InitTail /\ [][NextTail]_vars

----------------------------------------------------------------------------
(* daemon.py: two DaemonManager calls at work at once.  Each command line   *)
(* is a process of its own; nothing orders the file reads, the launches and *)
(* the file writes of one call against those of the other.                  *)

RaceNames == {<<"a">>, <<"b">>}

RaceCommand == command_list(<<py, <<"s">>>>)

\* the call has returned with result res; its memory is gone
Done(r, res) ==
    [r EXCEPT !.pc = "done", !.res = res, !.servers = <<>>, !.tosave = <<>>,
              !.ret = "idle"]

\* the call goes on to self._save_state(servers) and then to pc ret
ToSave(r, servers, ret) ==
    [r EXCEPT !.pc = "open", !.servers = servers, !.tosave = servers, !.ret = ret]

\* what is on disk between open(self.state_file, "w") and the end of the
\* with block: the file was truncated, and the text written so far is no JSON
Truncated == [exists |-> TRUE, json |-> FALSE, data |-> <<>>]

raceFrame == <<manager, pid_files, clock, lastCall, tailVars, detachVars, nameVars>>

\* the start calls that have not come to their launch yet
Pending == {j \in Invocations : inv[j].op = "start" /\ inv[j].pid = 0 /\ inv[j].pc # "done"}

\* a command line calls start(RaceCommand, name) or stop(name); no start once
\* the launches made and the launches to come reach MaxClock
Begin(i, op, name) ==
    /\ inv[i].pc = "idle"
    /\ op = "start" => clock + Cardinality(Pending) < MaxClock
    /\ inv' = [inv EXCEPT ![i] = [NoInv EXCEPT !.op = op, !.name = name,
                                              !.pc = IF op = "start" THEN "clean"
                                                     ELSE "load"]]
    /\ UNCHANGED <<procs, state_file, saving, raceFrame>>

\* start: self._clean_dead_processes()
Clean(i) ==
    /\ inv[i].pc = "clean"
    /\ LET servers == _load_state(state_file)
           alive_servers == SelectSeq(servers, LAMBDA r : is_running(r, procs))
       IN inv' = [inv EXCEPT ![i] =
                     IF Len(alive_servers) # Len(servers)
                     THEN ToSave(@, alive_servers, "check")
                     ELSE [@ EXCEPT !.pc = "check", !.servers = servers]]
    /\ UNCHANGED <<procs, state_file, saving, raceFrame>>

\* start: servers = self._load_state() and the already-running check
Check(i) ==
    /\ inv[i].pc = "check"
    /\ LET servers == _load_state(state_file)
       IN inv' = [inv EXCEPT ![i] =
                     IF already_running(servers, @.name, procs)
                     THEN Done(@, "AlreadyRunning")
                     ELSE [@ EXCEPT !.pc = "launch", !.servers = servers]]
    /\ UNCHANGED <<procs, state_file, saving, raceFrame>>

\* start: the record of the process launched under name nm with pid p at now
Launched(nm, p, now) ==
    ServerProcess(nm, RaceCommand, p, now, LOG_DIR \o nm \o DotLog,
                  LOG_DIR \o nm \o ErrorLog, <<"/", "h">>)

\* start: subprocess.Popen, the record, servers[name] = server; ~ok: Popen raises
Launch(i, ok) ==
    /\ inv[i].pc = "launch"
    /\ LET p == IF ok THEN NextPid(procs) ELSE 0
           nm == inv[i].name
           server == Launched(nm, p, clock)
       IN IF p = 0
          THEN /\ inv' = [inv EXCEPT ![i] = Done(@, "Failed")]
               /\ UNCHANGED <<procs, clock>>
          ELSE /\ procs' = Popen(procs, p, nm, RaceCommand)
               /\ inv' = [inv EXCEPT ![i] =
                             ToSave([@ EXCEPT !.pid = p], Put(@.servers, server),
                                    "verify")]
               /\ clock' = clock + 1
    /\ UNCHANGED <<state_file, saving, manager, pid_files, lastCall, tailVars,
                   detachVars, nameVars>>

\* _save_state: open(self.state_file, "w") truncates the file
Open(i) ==
    /\ inv[i].pc = "open"
    /\ saving' = [old |-> _load_state(state_file), new |-> inv[i].tosave]
    /\ state_file' = Truncated
    /\ inv' = [inv EXCEPT ![i].pc = "dump"]
    /\ UNCHANGED <<procs, raceFrame>>

\* _save_state: json.dump and the end of the with block put the text on disk
Dump(i) ==
    /\ inv[i].pc = "dump"
    /\ state_file' = _save_state(inv[i].tosave)
    /\ saving' = NoSave
    /\ inv' = [inv EXCEPT ![i] =
                  IF @.ret = "done" THEN Done(@, @.res)
                  ELSE [@ EXCEPT !.pc = inv[i].ret, !.tosave = <<>>]]
    /\ UNCHANGED <<procs, raceFrame>>

\* the command line is killed inside _save_state, after the open
KilledInSave(i) ==
    /\ inv[i].pc = "dump"
    /\ inv' = [inv EXCEPT ![i] = Done(@, "Killed")]
    /\ UNCHANGED <<procs, state_file, saving, raceFrame>>

\* start: after the pause, `if not server.is_running()`
Verify(i) ==
    /\ inv[i].pc = "verify"
    /\ LET server == Launched(inv[i].name, inv[i].pid, clock)
       IN inv' = [inv EXCEPT ![i] =
                     IF ~is_running(server, procs)
                     THEN ToSave([@ EXCEPT !.res = "StartupFailed"],
                                 Del(@.servers, @.name), "done")
                     ELSE Done(@, "Started")]
    /\ UNCHANGED <<procs, state_file, saving, raceFrame>>

\* stop: servers = self._load_state(), `name not in servers`, is_running
StopLoad(i) ==
    /\ inv[i].pc = "load"
    /\ LET servers == _load_state(state_file)
           nm == inv[i].name
       IN inv' = [inv EXCEPT ![i] =
                     IF nm \notin Keys(servers) THEN Done(@, "NotFound")
                     ELSE IF ~is_running(Get(servers, nm), procs)
                     THEN ToSave([@ EXCEPT !.res = "CleanedUp"], Del(servers, nm),
                                 "done")
                     ELSE [@ EXCEPT !.pc = "signal", !.servers = servers,
                                    !.pid = Get(servers, nm).pid]]
    /\ UNCHANGED <<procs, state_file, saving, raceFrame>>

\* stop: psutil.Process(server.pid), terminate, the wait, kill, del servers[name]
StopSignal(i) ==
    /\ inv[i].pc = "signal"
    /\ IF Exists(procs, inv[i].pid)
       THEN /\ procs' = Reap(procs, inv[i].pid)
            /\ inv' = [inv EXCEPT ![i] =
                          ToSave([@ EXCEPT !.res = "Stopped"],
                                 Del(@.servers, @.name), "done")]
       ELSE /\ inv' = [inv EXCEPT ![i] = Done(@, "Failed")]
            /\ UNCHANGED procs
    /\ UNCHANGED <<state_file, saving, raceFrame>>

\* the command line prints its result and exits
Return(i) ==
    /\ inv[i].pc = "done"
    /\ inv' = [inv EXCEPT ![i] = NoInv]
    /\ UNCHANGED <<procs, state_file, saving, raceFrame>>

InitRace ==
    /\ manager = "dm"
    /\ procs = [p \in Pids |-> NoProc]
    /\ state_file = NoFile
    /\ pid_files = EmptyDir
    /\ clock = 0
    /\ lastCall = NoCall
    /\ log_text = <<>>
    /\ printed = <<>>
    /\ tail = NoTail
    /\ inv = [i \in Invocations |-> NoInv]
    /\ saving = NoSave
    /\ ptab = <<>>
    /\ ctty = {}
    /\ typed = <<>>
    /\ nwords = 0
    /\ derived = NoDerived

NextRace ==
    \/ \E pid \in Pids : Exit(pid)
    \/ \E i \in Invocations, op \in {"start", "stop"}, n \in RaceNames : Begin(i, op, n)
    \/ \E i \in Invocations : Clean(i)
    \/ \E i \in Invocations : Check(i)
    \/ \E i \in Invocations, ok \in BOOLEAN : Launch(i, ok)
    \/ \E i \in Invocations : Open(i)
    \/ \E i \in Invocations : Dump(i)
    \/ \E i \in Invocations : KilledInSave(i)
    \/ \E i \in Invocations : Verify(i)
    \/ \E i \in Invocations : StopLoad(i)
    \/ \E i \in Invocations : StopSignal(i)
    \/ \E i \in Invocations : Return(i)

SpecRace == InitRace /\ [][NextRace]_vars

----------------------------------------------------------------------------
(* process.py, utils.py: the detach sequence of ProcessManager.start.  The  *)
(* processes of the sequence run on their own after each fork; a process is *)
(* its parent, its session, its process group and the step it stands at.    *)

MaxDetachPid == 6

DetachPids == 1..MaxDetachPid

DetachName == <<"a">>

\* proc: the pid of the process that Popen gave this one, 0 before
NoEntry ==
    [role |-> "free", pc |-> "none", ppid |-> 0, sid |-> 0, pgid |-> 0, proc |-> 0]

\* the lowest pid no process has
FreshPid == CHOOSE p \in DetachPids : ptab[p].role = "free" /\
                                      \A q \in DetachPids : ptab[q].role = "free" => p <= q

\* os.fork() in parent: the child inherits session and process group
Forked(parent, role, pc) ==
    [role |-> role, pc |-> pc, ppid |-> parent, sid |-> ptab[parent].sid,
     pgid |-> ptab[parent].pgid, proc |-> 0]

\* os.setsid() in p: p leads a new session and a new process group, and the
\* session has no controlling terminal; EPERM when p leads a process group
setsid_ok(p) == ptab[p].pgid # p

setsid(entry, p) == [entry EXCEPT !.sid = p, !.pgid = p]

session_leader(p) == ptab[p].sid = p

detachFrame == <<manager, procs, state_file, clock, lastCall, tailVars, raceVars,
                 nameVars>>

\* process.py: pid = os.fork(); ~ok: fork raises OSError, and start with it
PMFork(p, ok) ==
    /\ ptab[p].role = "invoker" /\ ptab[p].pc = "fork"
    /\ ptab' = IF ok
               THEN [ptab EXCEPT ![p].pc = "sleep",
                                 ![FreshPid] = Forked(p, "child", "fork1")]
               ELSE [ptab EXCEPT ![p].pc = "raised"]
    /\ UNCHANGED <<ctty, pid_files, detachFrame>>

\* daemonize: the first fork; the parent exits, and so does a process whose
\* fork failed
Fork1(p, ok) ==
    /\ ptab[p].role = "child" /\ ptab[p].pc = "fork1"
    /\ ptab' = IF ok
               THEN [ptab EXCEPT ![p].pc = "exit",
                                 ![FreshPid] = Forked(p, "daemon1", "setsid")]
               ELSE [ptab EXCEPT ![p].pc = "exit"]
    /\ UNCHANGED <<ctty, pid_files, detachFrame>>

\* daemonize: os.chdir("/"), os.setsid(), os.umask(0)
Setsid(p) ==
    /\ ptab[p].role = "daemon1" /\ ptab[p].pc = "setsid"
    /\ ptab' = IF setsid_ok(p)
               THEN [ptab EXCEPT ![p] = setsid([@ EXCEPT !.pc = "fork2"], p)]
               ELSE [ptab EXCEPT ![p].pc = "exit"]
    /\ UNCHANGED <<ctty, pid_files, detachFrame>>

\* daemonize: the second fork; the parent, the session leader, exits
Fork2(p, ok) ==
    /\ ptab[p].role = "daemon1" /\ ptab[p].pc = "fork2"
    /\ ptab' = IF ok
               THEN [ptab EXCEPT ![p].pc = "exit",
                                 ![FreshPid] = Forked(p, "daemon2", "popen")]
               ELSE [ptab EXCEPT ![p].pc = "exit"]
    /\ UNCHANGED <<ctty, pid_files, detachFrame>>

\* process.py: subprocess.Popen(command, shell=True, preexec_fn=os.setsid); it
\* returns when the new process has run preexec_fn and the exec; ~ok: it raises
PopenCommand(p, ok) ==
    /\ ptab[p].role = "daemon2" /\ ptab[p].pc = "popen"
    /\ ptab' = IF ok
               THEN LET c == FreshPid
                        forked == [ptab EXCEPT ![p].pc = "pidfile", ![p].proc = c,
                                               ![c] = Forked(p, "command", "running")]
                    IN IF forked[c].pgid # c
                       THEN [forked EXCEPT ![c] = setsid(@, c)]
                       ELSE [forked EXCEPT ![c] = NoEntry, ![p].pc = "exit",
                                           ![p].proc = 0]
               ELSE [ptab EXCEPT ![p].pc = "exit"]
    /\ UNCHANGED <<ctty, pid_files, detachFrame>>

\* process.py: f.write(str(proc.pid)), then sys.exit(0)
WritePidFile(p) ==
    /\ ptab[p].role = "daemon2" /\ ptab[p].pc = "pidfile"
    /\ pid_files' = Write(pid_files, DetachName, ptab[p].proc)
    /\ ptab' = [ptab EXCEPT ![p].pc = "exit"]
    /\ UNCHANGED <<ctty, detachFrame>>

\* sys.exit of p, or the end of the command: the process is gone, its children
\* are re-parented to init
ProcessExit(p) ==
    /\ ptab[p].pc = "exit" \/ ptab[p].role = "command"
    /\ ptab' = [q \in DetachPids |->
                   IF q = p THEN NoEntry
                   ELSE IF ptab[q].ppid = p THEN [ptab[q] EXCEPT !.ppid = 0]
                   ELSE ptab[q]]
    /\ UNCHANGED <<ctty, pid_files, detachFrame>>

\* process.py: after the sleep the invoker reads the PID file and reports
InvokerReports(p) ==
    /\ ptab[p].role = "invoker" /\ ptab[p].pc = "sleep"
    /\ ptab' = [ptab EXCEPT ![p].pc =
                   IF DetachName \in DOMAIN pid_files
                      /\ ptab[pid_files[DetachName]].role # "free"
                   THEN "started" ELSE "failed"]
    /\ UNCHANGED <<ctty, pid_files, detachFrame>>

\* the supervised command opens a terminal device: a session leader whose
\* session has no controlling terminal acquires it as controlling terminal
OpenTerminal(p) ==
    /\ ptab[p].role = "command"
    /\ session_leader(p)
    /\ ptab[p].sid \notin ctty
    /\ ctty' = ctty \cup {ptab[p].sid}
    /\ UNCHANGED <<ptab, pid_files, detachFrame>>

\* the invoker's shell leads the terminal's session; the invoker runs in a
\* process group of its own (job control) or in the shell's
InitDetach ==
    /\ manager = "pm"
    /\ procs = [p \in Pids |-> NoProc]
    /\ state_file = NoFile
    /\ pid_files = EmptyDir
    /\ clock = 0
    /\ lastCall = NoCall
    /\ log_text = <<>>
    /\ printed = <<>>
    /\ tail = NoTail
    /\ inv = [i \in Invocations |-> NoInv]
    /\ saving = NoSave
    /\ \E g \in {1, 2} :
          ptab = [p \in DetachPids |->
                     IF p = 1 THEN [role |-> "shell", pc |-> "none", ppid |-> 0,
                                    sid |-> 1, pgid |-> 1, proc |-> 0]
                     ELSE IF p = 2 THEN [role |-> "invoker", pc |-> "fork", ppid |-> 1,
                                         sid |-> 1, pgid |-> g, proc |-> 0]
                     ELSE NoEntry]
    /\ ctty = {1}
    /\ typed = <<>>
    /\ nwords = 0
    /\ derived = NoDerived

NextDetach ==
    \/ \E p \in DetachPids, ok \in BOOLEAN : PMFork(p, ok)
    \/ \E p \in DetachPids, ok \in BOOLEAN : Fork1(p, ok)
    \/ \E p \in DetachPids : Setsid(p)
    \/ \E p \in DetachPids, ok \in BOOLEAN : Fork2(p, ok)
    \/ \E p \in DetachPids, ok \in BOOLEAN : PopenCommand(p, ok)
    \/ \E p \in DetachPids : WritePidFile(p)
    \/ \E p \in DetachPids : ProcessExit(p)
    \/ \E p \in DetachPids : InvokerReports(p)
    \/ \E p \in DetachPids : OpenTerminal(p)

SpecDetach == InitDetach /\ [][NextDetach]_vars

----------------------------------------------------------------------------
(* utils.py: sanitize_name on the shell commands a user types.  A command   *)
(* is typed word by word, with blanks or tabs between the words, and        *)
(* ProcessManager.start derives the name from it when no name is given.     *)

MaxWords == 3

TAB == "\t"

\* the words of a command: assignments, options, paths, scripts, plain words;
\* the empty word stands for white space that nothing follows
Words ==
    {<<>>, <<"p">>, <<"y", "=", "p">>, <<"-", "p">>, <<"/", "p">>,
     <<"p", ".", "p", "y">>, <<".", "p", "y">>, <<"y", "/", "p", ".", "s", "h">>,
     <<"p", ".", "y">>}

\* what separates two words: a blank or a tab
Separators == {<<" ">>, <<TAB>>}

nameFrame == <<base, tailVars, raceVars, detachVars>>

\* one more word of the command, after white space when it is not the first
TypeWord(sep, word) ==
    /\ ~derived.done
    /\ nwords < MaxWords
    /\ sep = <<>> => typed = <<>>
    /\ typed' = typed \o sep \o word
    /\ nwords' = nwords + 1
    /\ UNCHANGED <<derived, nameFrame>>

\* process.py: `if name is None: name = sanitize_name(command)`
Derive ==
    /\ ~derived.done
    /\ typed # <<>>
    /\ derived' = [from |-> typed, name |-> sanitize_name(typed), done |-> TRUE]
    /\ UNCHANGED <<typed, nwords, nameFrame>>

\* the next command line
NextCommand ==
    /\ derived.done
    /\ typed' = <<>>
    /\ nwords' = 0
    /\ derived' = NoDerived
    /\ UNCHANGED nameFrame

InitName ==
    /\ manager = "pm"
    /\ procs = [p \in Pids |-> NoProc]
    /\ state_file = NoFile
    /\ pid_files = EmptyDir
    /\ clock = 0
    /\ lastCall = NoCall
    /\ log_text = <<>>
    /\ printed = <<>>
    /\ tail = NoTail
    /\ inv = [i \in Invocations |-> NoInv]
    /\ saving = NoSave
    /\ ptab = <<>>
    /\ ctty = {}
    /\ typed = <<>>
    /\ nwords = 0
    /\ derived = NoDerived

NextName ==
    \/ \E sep \in Separators \cup {<<>>}, word \in Words : TypeWord(sep, word)
    \/ Derive
    \/ NextCommand

SpecName == InitName /\ [][NextName]_vars

----------------------------------------------------------------------------
(* Properties *)

\* the stored record of name, as a set with at most one element: the registry
\* entry of the DaemonManager, the content of the PID file of the ProcessManager
Record(sf, files, name) ==
    IF manager = "dm"
    THEN {_load_state(sf)[i] : i \in {j \in 1..Len(_load_state(sf)) :
                                        _load_state(sf)[j].name = name}}
    ELSE {files[k] : k \in DOMAIN files \cap {name}}

\* the processes alive in P
Live(P) == {q \in DOMAIN P : Exists(P, q)}

Range(q) == {q[i] : i \in 1..Len(q)}

\* C1: a start under a name whose launched process is still alive returns the
\* already-running failure, launches nothing (the process table is as it was)
\* and leaves the stored record of the name unchanged - in both managers.
C1_StartWhileAliveIsRejected ==
    [][(lastCall = NoCall /\ lastCall'.op = "start"
        /\ OwnLive(procs, manager, lastCall'.name))
       => /\ lastCall'.res = "AlreadyRunning"
          /\ lastCall'.launch = 0
          /\ procs' = procs
          /\ Record(state_file', pid_files', lastCall'.name)
               = Record(state_file, pid_files, lastCall'.name)
          /\ Record(state_file, pid_files, lastCall'.name) # {}]_vars

\* a start was rejected while the process launched under the name was alive
C1_Witness ==
    /\ lastCall.op = "start"
    /\ lastCall.ownLive
    /\ lastCall.res = "AlreadyRunning"
    /\ lastCall.tkind = manager
    /\ lastCall.towner = lastCall.name

\* C2: in every state a sequence of DaemonManager calls reaches, each live
\* process that a start launched has a registry entry under its name that
\* carries its pid (a successful stop leaves its target dead, so every live
\* launched process is one no successful stop was aimed at).
C2_LiveLaunchedIsRegistered ==
    manager = "dm" =>
        \A q \in Live(procs) :
            procs[q].kind = "dm" => RecordedPid(state_file, procs[q].owner) = q

\* a stop succeeded while another launched process is alive, and the registry
\* holds that one
C2_Witness ==
    /\ lastCall.mgr = "dm"
    /\ lastCall.op \in {"stop", "stop_all", "restart"}
    /\ lastCall.sigs # <<>>
    /\ \E q \in Live(procs) :
          /\ procs[q].kind = "dm"
          /\ procs[q].owner # lastCall.name
          /\ RecordedPid(state_file, procs[q].owner) = q

\* C3: is_running is true of a record only if the process at the recorded pid
\* was launched with the recorded command vector; a process that reused the
\* pid and was not launched with it makes is_running false.
C3_IsRunningMeansLaunchedWithCommand ==
    manager = "dm" =>
        \A i \in 1..Len(_load_state(state_file)) :
            LET server == _load_state(state_file)[i]
            IN is_running(server, procs)
               => /\ procs[server.pid].kind = "dm"
                  /\ procs[server.pid].cmd = server.command

\* C4: when the pid in a name's PID file belongs to an unrelated process,
\* ProcessManager.status does not list the name, start does not answer
\* already-running, and stop sends no signal.
C4_UnrelatedPidIsNotOurs ==
    lastCall.mgr = "pm" =>
        /\ lastCall.op = "status"
             => \A e \in lastCall.listed : procs[e[2]].kind # "foreign"
        /\ (lastCall.op = "start" /\ lastCall.tkind = "foreign")
             => lastCall.res # "AlreadyRunning"
        /\ (lastCall.op = "stop" /\ lastCall.tkind = "foreign")
             => lastCall.sigs = <<>>

\* the call stopped (or tried to stop) the live process this manager launched
\* under the name
OwnTarget(c) ==
    c.ownLive /\ c.tkind = c.mgr /\ c.towner = c.name

\* the graceful wait ran to its end: all GracePolls polls of DaemonManager.stop,
\* the whole timeout of wait_procs in kill_process_tree
WaitExpired(c) == IF c.mgr = "dm" THEN c.polls = GracePolls ELSE c.expired

\* the process at pid t is gone, or it is one that outlived the forced kill
GoneUnlessSurvivor(P, t) == Exists(P, t) => P[t].kind = "survivor"

C6_ForceSkipsGraceful ==
    LET c == lastCall
        t == c.target
    IN (c.mgr = "dm" /\ c.op = "stop" /\ c.force /\ OwnTarget(c)) =>
        /\ c.polls = 0
        /\ \A i \in 1..Len(c.sigs) : c.sigs[i] = KILL(t)
        /\ Len(c.sigs) <= 1
        /\ c.race # ""
        /\ c.race = "none" =>
              /\ c.sigs = <<KILL(t)>>
              /\ c.res = "Stopped"
              /\ GoneUnlessSurvivor(procs, t)
              /\ c.name \notin Keys(_load_state(state_file))

\* a forced stop killed the live process of the name
C6_Witness ==
    /\ lastCall.mgr = "dm"
    /\ lastCall.op = "stop"
    /\ lastCall.force
    /\ OwnTarget(lastCall)
    /\ lastCall.sigs = <<KILL(lastCall.target)>>
    /\ lastCall.name \notin Keys(_load_state(state_file))

\* C7: DaemonManager.stop of a registered name whose launched process has died
\* removes that record and no other, sends no signal, returns success, and a
\* stop of the name right after returns not-found and changes nothing.
C7_StopOfDeadCleansUpOnce ==
    [][(manager = "dm" /\ lastCall = NoCall /\ lastCall'.op = "stop"
        /\ lastCall'.name \in Keys(_load_state(state_file))
        /\ ~OwnLive(procs, "dm", lastCall'.name))
       => /\ lastCall'.res = "CleanedUp"
          /\ StopOk(lastCall'.res)
          /\ lastCall'.sigs = <<>>
          /\ procs' = procs
          /\ _load_state(state_file') = Del(_load_state(state_file), lastCall'.name)
          /\ \A f \in BOOLEAN, e \in StopEnvs :
                LET again == DaemonManager_stop(state_file', procs', lastCall'.name, f, e)
                IN /\ again.res = "NotFound"
                   /\ again.file = state_file'
                   /\ again.procs = procs'
                   /\ again.sigs = <<>>]_vars

\* C8: ProcessManager.stop of a name whose PID file holds a pid at which no
\* process lives deletes the PID file, sends no signal and returns True.
C8_StaleStopReportsSuccess ==
    LET c == lastCall
    IN (c.mgr = "pm" /\ c.op = "stop" /\ c.target # None /\ c.tkind = "free") =>
        /\ c.name \notin DOMAIN pid_files
        /\ c.sigs = <<>>
        /\ PMStopOk(c.res)

\* C9: when the stop phase of a restart fails for a reason other than the
\* process being not running (an exception in DaemonManager.stop, a failed
\* kill_process_tree in ProcessManager.stop), the restart returns failure and
\* start is not called: nothing is launched and the stored records stay as
\* they were.
C9_FailedStopAbortsRestart ==
    [][(lastCall = NoCall /\ lastCall'.op = "restart"
        /\ lastCall'.stopRes \in {"Failed", "KillFailed"})
       => /\ lastCall'.res = "StopFailed"
          /\ lastCall'.launch = 0
          /\ clock' = clock
          /\ Live(procs') \subseteq Live(procs)
          /\ state_file' = state_file
          /\ pid_files' = pid_files]_vars

\* a restart gave up because its stop phase failed
C9_Witness ==
    /\ lastCall.op = "restart"
    /\ lastCall.stopRes \in {"Failed", "KillFailed"}
    /\ lastCall.res = "StopFailed"
    /\ lastCall.launch = 0

\* the fields of a registry entry other than pid and started_at
Frame(server) ==
    [name |-> server.name, command |-> server.command, log_file |-> server.log_file,
     error_log_file |-> server.error_log_file, cwd |-> server.cwd]

\* C10: a successful restart of the live process launched under a name starts
\* the command that was given to the original start, under the same name (and,
\* in the DaemonManager, in the same working directory); the stored record
\* differs from the one before only in pid and start time.
C10_RestartRelaunchesOriginalCommand ==
    [][(lastCall = NoCall /\ lastCall'.op = "restart" /\ lastCall'.res = "Started"
        /\ lastCall'.target # None
        /\ procs[lastCall'.target].kind = manager
        /\ procs[lastCall'.target].owner = lastCall'.name)
       => /\ lastCall'.lcmd = procs[lastCall'.target].cmd
          /\ procs'[lastCall'.launch].owner = lastCall'.name
          /\ Record(state_file', pid_files', lastCall'.name) # {}
          /\ manager = "dm" =>
                \A old \in Record(state_file, pid_files, lastCall'.name),
                   new \in Record(state_file', pid_files', lastCall'.name) :
                      /\ Frame(new) = Frame(old)
                      /\ lastCall'.lcwd = old.cwd
                      /\ new.pid = lastCall'.launch]_vars

\* the records named name that list_servers() returns in the current state
Listed(name) ==
    LET servers == DaemonManager_list_servers(state_file, procs).listed
    IN {i \in 1..Len(servers) : servers[i].name = name}

\* C11: in the DaemonManager, while a process that start launched under a name
\* is alive (and no stop of it has succeeded), list_servers() contains exactly
\* one record of that name, and its pid is the pid of the process, above 0;
\* when a stop of a name has returned success, list_servers() contains no
\* record of that name.
C11_ListedWhileAliveUnlistedAfterStop ==
    manager = "dm" =>
        /\ \A q \in Live(procs) :
              procs[q].kind = "dm" =>
                  /\ Cardinality(Listed(procs[q].owner)) = 1
                  /\ \A i \in Listed(procs[q].owner) :
                        LET pid == DaemonManager_list_servers(state_file, procs).listed[i].pid
                        IN pid = q /\ pid > 0
        /\ (lastCall.op = "stop" /\ StopOk(lastCall.res)) => Listed(lastCall.name) = {}

\* a stop of the live process launched under a name has succeeded while a
\* process launched under another name is alive and listed
C11_Witness ==
    /\ lastCall.mgr = "dm"
    /\ lastCall.op = "stop"
    /\ lastCall.res = "Stopped"
    /\ OwnTarget(lastCall)
    /\ Listed(lastCall.name) = {}
    /\ \E q \in Live(procs) : procs[q].kind = "dm" /\ Cardinality(Listed(procs[q].owner)) = 1

\* a DaemonManager.start step whose launched process had exited at the
\* verification
StartupFailedStep ==
    /\ manager = "dm"
    /\ lastCall = NoCall
    /\ lastCall'.op = "start"
    /\ lastCall'.res = "StartupFailed"

\* the path of the stderr log of a name, as start builds it
error_log_file(name) == LOG_DIR \o name \o ErrorLog

\* C12 as stated: when the launched process has exited at the verification of
\* DaemonManager.start, start returns failure with a message that names the
\* stderr log path, the registry has no entry of the name, and every other
\* entry is as it was before the call.
C12_FailedStartLeavesOthersUnchanged ==
    [][StartupFailedStep
       => /\ lastCall'.launch # 0
          /\ ~Exists(procs', lastCall'.launch)
          /\ IsSub(error_log_file(lastCall'.name), lastCall'.msg)
          /\ lastCall'.name \notin Keys(_load_state(state_file'))
          /\ _load_state(state_file') = Del(_load_state(state_file), lastCall'.name)]_vars

\* C12, amended: when the launched process has exited at the verification of
\* DaemonManager.start, start returns failure with a message that names the
\* stderr log path, the registry has no entry of the name, every other entry
\* whose process is_running is as it was before the call, and the other entries
\* are gone (the clean-up at the beginning of start removed them).
C12_FailedStartLeavesRunningOthersUnchanged ==
    [][StartupFailedStep
       => /\ lastCall'.launch # 0
          /\ ~Exists(procs', lastCall'.launch)
          /\ IsSub(error_log_file(lastCall'.name), lastCall'.msg)
          /\ lastCall'.name \notin Keys(_load_state(state_file'))
          /\ _load_state(state_file')
               = SelectSeq(_load_state(state_file),
                           LAMBDA r : r.name # lastCall'.name /\ is_running(r, procs))]_vars

\* a start has failed at its verification while the registry holds the entry of
\* another name
C12_Witness ==
    /\ lastCall.mgr = "dm"
    /\ lastCall.op = "start"
    /\ lastCall.res = "StartupFailed"
    /\ IsSub(error_log_file(lastCall.name), lastCall.msg)
    /\ lastCall.name \notin Keys(_load_state(state_file))
    /\ _load_state(state_file) # <<>>

\* C13: when ProcessManager.start returns None because the process it launched
\* is not running at the verification, no PID file of that name remains.
C13_FailedStartRemovesPidFile ==
    (lastCall.mgr = "pm" /\ lastCall.op = "start" /\ lastCall.res = "Failed"
     /\ lastCall.launch # 0)
        => lastCall.name \notin DOMAIN pid_files

\* C14: the key under which ProcessManager.start stores a process started with
\* an explicit name n is the sanitized n, the key that stop(n) and restart(n)
\* look up; so right after a successful start(name=n), stop(n) and restart(n)
\* find the PID file.
C14_GivenNameIsSanitizedAtStart ==
    (lastCall.mgr = "pm" /\ lastCall.op = "start" /\ lastCall.given # NoName) =>
        /\ lastCall.name = sanitize_name(lastCall.given)
        /\ \A e \in PMStopEnvs :
              lastCall.name = ProcessManager_stop(pid_files, procs, lastCall.given,
                                                  DefaultTimeout, e).name
        /\ lastCall.res = "Started" =>
              \A e \in PMStopEnvs :
                 /\ ProcessManager_stop(pid_files, procs, lastCall.given,
                                        DefaultTimeout, e).res # "NoPidFile"
                 /\ ProcessManager_restart(pid_files, procs, lastCall.given,
                                           DefaultTimeout, e, TRUE, TRUE, FALSE).res
                      # "NoPidFile"

\* a ProcessManager.start without a name has launched the command
\* "PORT=8080 node server.js" under the name that sanitize_name derives
DerivedFromPortCommand ==
    /\ lastCall.mgr = "pm"
    /\ lastCall.op = "start"
    /\ lastCall.given = NoName
    /\ lastCall.lcmd = PortCommand

\* C15 as stated: the name that sanitize_name derives for the command
\* "PORT=8080 node server.js" is "server".
C15_PortCommandYieldsServer ==
    DerivedFromPortCommand => lastCall.name = <<"s", "e", "r", "v", "e", "r">>

\* C15, amended: the name that sanitize_name derives for the command
\* "PORT=8080 node server.js" is "node": the environment assignment is skipped
\* and the first part after it is taken, which is the interpreter; the script
\* is not looked at.
C15_PortCommandYieldsNode ==
    DerivedFromPortCommand =>
        /\ lastCall.name = <<"n", "o", "d", "e">>
        /\ lastCall.name = sanitize_name(PortCommand)

\* the command "PORT=8080 node server.js" was started without a name and runs
\* under the name "node"
C15_Witness ==
    /\ DerivedFromPortCommand
    /\ lastCall.res = "Started"
    /\ lastCall.name = <<"n", "o", "d", "e">>
    /\ <<"n", "o", "d", "e">> \in DOMAIN pid_files

\* C16: a server started through the CLI from a Python script path with no
\* --name is registered under the stem of the script, so that a stop of that
\* stem finds its record and the record is the one `logs` looks up.
C16_ScriptIsRegisteredUnderItsStem ==
    (lastCall.mgr = "dm" /\ lastCall.op = "start" /\ lastCall.res = "Started"
     /\ lastCall.given = NoName /\ lastCall.argv # <<>>
     /\ EndsWith(lastCall.argv[1], DotPy))
        => /\ lastCall.name = stem(lastCall.argv[1])
           /\ Listed(stem(lastCall.argv[1])) # {}
           /\ \A f \in BOOLEAN, e \in StopEnvs :
                 DaemonManager_stop(state_file, procs, stem(lastCall.argv[1]), f, e).res
                    # "NotFound"

\* the record that the start just returned has built and saved
Saved(c) ==
    ServerProcess(c.name, c.lcmd, c.launch, clock - 1, LOG_DIR \o c.name \o DotLog,
                  error_log_file(c.name), c.lcwd)

\* records as start builds them for other pids, times and working directories
Records ==
    {ServerProcess(lastCall.name, lastCall.lcmd, p, t, LOG_DIR \o lastCall.name \o DotLog,
                   error_log_file(lastCall.name), w) :
        p \in Pids \cup {None}, t \in 0..MaxClock, w \in Dirs \cup (CwdArgs \ {NoName})}

Unloadable(sf) == sf = NoFile \/ sf \in Unreadable

\* the result of a call, with the state file it leaves replaced by the registry
\* loaded from it
Behaviour(r) == [r EXCEPT !.file = _load_state(r.file)]

\* the state file of an empty registry
EmptyRegistry == _save_state(<<>>)

\* C18: when the state file is missing, is not JSON or holds an entry that
\* from_dict cannot convert, _load_state returns the empty mapping, and start,
\* stop, list_servers and stop_all return what they return on an empty
\* registry, do to the processes what they do there and leave the registry
\* they leave there.
C18_UnreadableStateIsEmptyRegistry ==
    (manager = "dm" /\ Unloadable(state_file)) =>
        /\ _load_state(state_file) = <<>>
        /\ \A argv \in Argvs, n \in Names \cup {NoName}, w \in CwdArgs, h \in Dirs,
              ok \in BOOLEAN, x \in BOOLEAN :
                 Behaviour(DaemonManager_start(state_file, procs, clock, h,
                                               command_list(argv), n, w, ok, x))
                   = Behaviour(DaemonManager_start(EmptyRegistry, procs, clock, h,
                                                   command_list(argv), n, w, ok, x))
        /\ \A n \in StopNames, f \in BOOLEAN, e \in StopEnvs :
                 Behaviour(DaemonManager_stop(state_file, procs, n, f, e))
                   = Behaviour(DaemonManager_stop(EmptyRegistry, procs, n, f, e))
        /\ Behaviour(DaemonManager_list_servers(state_file, procs))
             = Behaviour(DaemonManager_list_servers(EmptyRegistry, procs))
        /\ Behaviour(DaemonManager_stop_all(state_file, procs, <<>>))
             = Behaviour(DaemonManager_stop_all(EmptyRegistry, procs, <<>>))
        /\ lastCall.op = "stop" => lastCall.res = "NotFound"
        /\ lastCall.op = "list_servers" => lastCall.listed = {}
        /\ lastCall.op = "stop_all" => lastCall.results = <<>>

\* a stop of a name that an entry of the state file carries has answered
\* not-found, because another entry of the file cannot be converted
C18_Witness ==
    /\ manager = "dm"
    /\ state_file \in Unreadable
    /\ state_file.json
    /\ \E i \in 1..Len(state_file.data) : Convertible(state_file.data[i])
    /\ lastCall.op = "stop"
    /\ lastCall.name = Stored.name
    /\ lastCall.res = "NotFound"

\* C19: DaemonManager.stop_all returns one result for every name that the
\* registry holds when it is called, in the order of the registry and whatever
\* the stops before returned; afterwards the names whose stop returned success
\* are absent from the registry, the names whose stop failed are present with
\* their records unchanged, and the registry holds nothing else.
C19_StopAllReportsEveryName ==
    [][(manager = "dm" /\ lastCall = NoCall /\ lastCall'.op = "stop_all")
       => LET before == _load_state(state_file)
              after == _load_state(state_file')
              results == lastCall'.results
          IN /\ Len(results) = Len(before)
             /\ \A i \in 1..Len(before) :
                   /\ results[i][1] = before[i].name
                   /\ results[i][2] # "NotFound"
                   /\ StopOk(results[i][2]) => before[i].name \notin Keys(after)
                   /\ ~StopOk(results[i][2]) =>
                         /\ before[i].name \in Keys(after)
                         /\ Get(after, before[i].name) = before[i]
             /\ Keys(after) \subseteq Keys(before)]_vars

\* a stop_all has gone on after a stop that failed: the first name is still
\* registered, the second is not
C19_Witness ==
    /\ lastCall.mgr = "dm"
    /\ lastCall.op = "stop_all"
    /\ Len(lastCall.results) = 2
    /\ ~StopOk(lastCall.results[1][2])
    /\ lastCall.results[2][2] = "Stopped"
    /\ Keys(_load_state(state_file)) = {lastCall.results[1][1]}

\* C20: when the process a stop was aimed at is still alive after the forced
\* kill was sent to it, the stop does not report success - in both managers.
C20_SurvivedKillIsReportedAsFailure ==
    (lastCall.op = "stop"
     /\ KILL(lastCall.target) \in Range(lastCall.sigs)
     /\ Exists(procs, lastCall.target))
        => /\ lastCall.mgr = "dm" => ~StopOk(lastCall.res)
           /\ lastCall.mgr = "pm" => ~PMStopOk(lastCall.res)

\* what a follow has printed since it went to the end of the file, without the
\* farewell of an interrupted one
Followed ==
    SubSeq(printed, tail.first + 1, Len(printed) - (IF tail.interrupted THEN 1 ELSE 0))

\* C21: tail_log_file(path, lines=N) without follow prints the last min(N, L)
\* lines of a file of L lines, in file order, each without its line end: no
\* line when N = 0, all lines when N >= L.
C21_TailPrintsLastLines ==
    (tail.pc = "done" /\ ~tail.follow) =>
        LET file_lines == readlines(tail.seen)
            L == Len(file_lines)
            k == IF tail.lines < L THEN tail.lines ELSE L
        IN printed = [i \in 1..k |-> rstrip(file_lines[L - k + i])]

\* C22: in follow mode tail_log_file starts reading at the end of the file;
\* what it has printed since is, line by line and in order, the lines of the
\* text appended after that point up to where it has read; it goes to sleep
\* only when it has read all there is; and it ends only by an interrupt.
C22_FollowEmitsEachLineOnce ==
    [][/\ (tail'.follow /\ tail'.pc \in {"read", "sleep", "done"}) =>
             /\ tail'.start >= Len(tail'.seen)
             /\ Followed' = Prints(readlines(SubSeq(log_text', tail'.start + 1, tail'.pos)))
       /\ (tail.pc = "open" /\ tail'.pc = "read") => tail'.start = Len(log_text)
       /\ (tail.pc = "read" /\ tail'.pc = "sleep") => tail.pos = Len(log_text)
       /\ (tail.follow /\ tail.pc # "done" /\ tail'.pc = "done") => tail'.interrupted]_vars

\* the stop call c returned success
Succeeded(c) == IF c.mgr = "dm" THEN StopOk(c.res) ELSE PMStopOk(c.res)

\* a stop step aimed at the live process this manager launched under the name,
\* which does not exit by itself during the call
StopOfLiveStep ==
    /\ lastCall = NoCall
    /\ lastCall'.op = "stop"
    /\ lastCall'.target # None
    /\ Exists(procs, lastCall'.target)
    /\ procs[lastCall'.target].kind = manager
    /\ procs[lastCall'.target].owner = lastCall'.name
    /\ lastCall'.race = "none"

\* C23: a stop of a live process sends a termination signal (graceful or
\* forced) to the root process and to every descendant it has when stop is
\* called, in the graceful phase to the descendants before the root; when the
\* stop returns success neither the root nor any of those descendants is
\* alive - in both managers.
C23_StopReachesWholeTree ==
    [][StopOfLiveStep =>
          LET t == lastCall'.target
              sigs == lastCall'.sigs
              tree == Range(children(procs, t)) \cup {t}
          IN /\ tree \subseteq Signalled(sigs)
             /\ \A i \in 1..Len(sigs) :
                   sigs[i] = TERM(t) =>
                       \A d \in tree \ {t} : \E j \in 1..(i - 1) : sigs[j][2] = d
             /\ Succeeded(lastCall') => \A d \in tree : ~Exists(procs', d)]_vars

\* a stop step aimed at the live process this manager launched under the name
LiveStopStep ==
    /\ lastCall = NoCall
    /\ lastCall'.op = "stop"
    /\ lastCall'.target # None
    /\ Exists(procs, lastCall'.target)
    /\ procs[lastCall'.target].kind = manager
    /\ procs[lastCall'.target].owner = lastCall'.name

\* C24: in a stop of a live process the record (registry entry or PID file) is
\* removed only if the root process is gone or the forced kill was sent to it;
\* when the stop returns failure the record is in the store as it was - in
\* both managers.
C24_RecordOutlivesFailedStop ==
    [][LiveStopStep =>
          LET name == lastCall'.name
              t == lastCall'.target
          IN /\ Record(state_file, pid_files, name) # {}
             /\ Record(state_file', pid_files', name) = {} =>
                   \/ KILL(t) \in Range(lastCall'.sigs)
                   \/ ~Exists(procs', t)
             /\ Record(state_file', pid_files', name) # {} =>
                   Record(state_file', pid_files', name) = Record(state_file, pid_files, name)
             /\ ~Succeeded(lastCall') => Record(state_file', pid_files', name) # {}
             /\ Succeeded(lastCall') => Record(state_file', pid_files', name) = {}]_vars

\* a stop of a live launched process has failed and its record is still there
C24_Witness ==
    /\ lastCall.op = "stop"
    /\ OwnTarget(lastCall)
    /\ ~Succeeded(lastCall)
    /\ lastCall.res \in {"Failed", "KillFailed"}
    /\ Record(state_file, pid_files, lastCall.name) # {}

\* the entries of the registry in sf whose is_running check passes against P
Running(sf, P) == SelectSeq(_load_state(sf), LAMBDA r : is_running(r, P))

\* C25: reconciliation (_clean_dead_processes) leaves exactly the entries whose
\* is_running check passes, each unchanged, and leaves the store as it is when
\* it removed nothing; list_servers returns the reconciled registry, so every
\* record it returns passed is_running during the call; start checks the
\* collision against the reconciled registry and builds on it: apart from the
\* entry of its own name, the registry after a start is the reconciled one.
C25_ReconciledBeforeRead ==
    [][manager = "dm" =>
          /\ _load_state(_clean_dead_processes(state_file, procs)) = Running(state_file, procs)
          /\ Running(state_file, procs) = _load_state(state_file)
                => _clean_dead_processes(state_file, procs) = state_file
          /\ (lastCall = NoCall /\ lastCall'.op = "list_servers") =>
                /\ state_file' = _clean_dead_processes(state_file, procs)
                /\ lastCall'.listed = {<<r.name, r.pid>> : r \in Range(Running(state_file, procs))}
                /\ \A r \in Range(_load_state(state_file')) : is_running(r, procs')
          /\ (lastCall = NoCall /\ lastCall'.op = "start") =>
                /\ lastCall'.res = "AlreadyRunning" <=>
                      lastCall'.name \in Keys(Running(state_file, procs))
                /\ Del(_load_state(state_file'), lastCall'.name)
                      = Del(Running(state_file, procs), lastCall'.name)]_vars

\* list_servers has returned a record, and every record of the registry passes
\* is_running
C25_Witness ==
    /\ lastCall.mgr = "dm"
    /\ lastCall.op = "list_servers"
    /\ lastCall.listed # {}
    /\ \A r \in Range(_load_state(state_file)) :
          is_running(r, procs) /\ <<r.name, r.pid>> \in lastCall.listed

\* C26 as stated: each single DaemonManager start, stop or list_servers
\* invocation writes the registry store at most once.
C26_EachInvocationWritesAtMostOnce ==
    (lastCall.mgr = "dm" /\ lastCall.op \in {"start", "stop", "list_servers"})
        => lastCall.writes <= 1

\* C26 amended: a stop or a list_servers invocation writes the registry store at
\* most once.  A start invocation writes it at most three times: once when its
\* clean-up removed an entry, once to record the launched process, and once
\* more to remove that record when the process exited at once; a start that
\* launches nothing writes it at most once.
C26_WritesPerInvocation ==
    /\ (lastCall.mgr = "dm" /\ lastCall.op \in {"stop", "list_servers"})
          => lastCall.writes <= 1
    /\ (lastCall.mgr = "dm" /\ lastCall.op = "start")
          => /\ lastCall.res = "Started" => lastCall.writes \in {1, 2}
             /\ lastCall.res = "StartupFailed" => lastCall.writes \in {2, 3}
             /\ lastCall.res \in {"AlreadyRunning", "Failed"} => lastCall.writes <= 1

\* a start that cleaned a dead entry, recorded its process and removed the
\* record again: three writes in one invocation
C26_Witness ==
    /\ lastCall.mgr = "dm"
    /\ lastCall.op = "start"
    /\ lastCall.res = "StartupFailed"
    /\ lastCall.writes = 3

\* command line i reads the store: the load of _clean_dead_processes, of
\* start's collision check, or of stop
LoadStep(i) ==
    /\ inv[i].pc \in {"clean", "check", "load"}
    /\ inv'[i] # inv[i]

\* what the load of that step returned (a call that returned at once keeps
\* nothing in memory; what it read is what _load_state gives of the file)
Loaded == _load_state(state_file)

\* C29: every _load_state, also while another command line is inside
\* _save_state or after one was killed there, returns the store's previous
\* content or the full mapping being saved, never an empty or partial mapping
\* produced by the write in progress.  (saving is NoSave when the last
\* _save_state came to its end: the property speaks of the other loads.)
C29_LoadSeesPreviousOrNewMapping ==
    [][\A i \in Invocations :
          (LoadStep(i) /\ saving # NoSave) => Loaded \in {saving.old, saving.new}]_vars

\* the pids the registry records under name
RecordedPids(name) ==
    LET servers == _load_state(state_file)
    IN {servers[k].pid : k \in {k \in 1..Len(servers) : servers[k].name = name}}

\* both command lines ran start for the same name, both launched (each passed
\* the already-running check) and both returned success; both processes run
BothStarted(i, j) ==
    /\ i # j
    /\ inv[i].pc = "done" /\ inv[j].pc = "done"
    /\ inv[i].op = "start" /\ inv[j].op = "start"
    /\ inv[i].name = inv[j].name
    /\ inv[i].res = "Started" /\ inv[j].res = "Started"
    /\ inv[i].pid # inv[j].pid
    /\ Exists(procs, inv[i].pid) /\ Exists(procs, inv[j].pid)

\* C27: two start calls for the same name that interleave can both pass the
\* already-running check and both launch a process; the registry then records
\* only one of the two pids, and the other process runs with no record.
C27_DoubleStartRecordsOnePid ==
    \A i, j \in Invocations :
        BothStarted(i, j) =>
            \/ RecordedPids(inv[i].name) = {inv[i].pid}
            \/ RecordedPids(inv[i].name) = {inv[j].pid}

\* both starts succeeded for "a"; the process of the first command line runs
\* with no record
C27_Witness ==
    /\ BothStarted(1, 2)
    /\ inv[1].name = <<"a">>
    /\ RecordedPids(<<"a">>) = {inv[2].pid}
    /\ procs[inv[1].pid].owner = <<"a">>
    /\ procs[inv[2].pid].owner = <<"a">>

\* what command line i did is in the registry: the record of the process a
\* start launched, no entry of the name after a stop or a failed start
InRegistry(i) ==
    IF inv[i].res = "Started" THEN inv[i].pid \in RecordedPids(inv[i].name)
    ELSE inv[i].name \notin Keys(_load_state(state_file))

\* both command lines have come to their end through a save of their own
BothSaved(i, j) ==
    /\ i # j
    /\ inv[i].pc = "done" /\ inv[j].pc = "done"
    /\ inv[i].name # inv[j].name
    /\ {inv[i].res, inv[j].res} \subseteq {"Started", "StartupFailed", "Stopped", "CleanedUp"}

\* C28: two interleaved calls on different names, each doing load, mutation in
\* memory and full save, can end with the registry missing the entry of a
\* process that is still running, or still holding the entry of a process that
\* was stopped; the registry is that of the call that saved last, so at most
\* one of the two updates is lost.
C28_LastSaveWinsOtherMayBeLost ==
    \A i, j \in Invocations :
        BothSaved(i, j) =>
            InRegistry(i) \/ InRegistry(j)

\* start("a") and start("b") have both succeeded and both processes run, and
\* the registry has no entry for "a"
C28_Witness ==
    /\ BothSaved(1, 2)
    /\ inv[1].op = "start" /\ inv[1].res = "Started" /\ inv[1].name = <<"a">>
    /\ inv[2].op = "start" /\ inv[2].res = "Started"
    /\ is_running(Launched(<<"a">>, inv[1].pid, 0), procs)
    /\ procs[inv[1].pid].owner = <<"a">>
    /\ procs[inv[2].pid].owner = <<"b">>
    /\ <<"a">> \notin Keys(_load_state(state_file))

\* the session of the command line that called ProcessManager.start
InvokerSession == ptab[CHOOSE p \in DetachPids : ptab[p].role = "invoker"].sid

\* C30: after the detach sequence of ProcessManager.start (fork, daemonize
\* with its two forks and setsid, launch of the command) the supervised command
\* process is in a session different from the invoker's and is not itself a
\* session leader.
C30_CommandIsDetachedAndNoSessionLeader ==
    \A c \in DetachPids :
        ptab[c].role = "command" =>
            /\ ptab[c].sid # InvokerSession
            /\ ~session_leader(c)

\* the derivation in the words of C31: the first whitespace-separated token
\* that is no assignment and starts with no "-", else the first token; its
\* basename; one trailing script extension taken off; unsafe characters replaced
ReferenceName(command) ==
    LET tokens == split(command)
        qualifies == {i \in 1..Len(tokens) :
                         "=" \notin Chars(tokens[i]) /\ tokens[i][1] # "-"}
        token == IF qualifies # {}
                 THEN tokens[CHOOSE i \in qualifies : \A j \in qualifies : i <= j]
                 ELSE tokens[1]
        base_name == basename(token)
        stripped == IF \E e \in ScriptExts : EndsWith(base_name, e)
                    THEN SubSeq(base_name, 1, Len(base_name) - 3)
                    ELSE base_name
    IN [i \in 1..Len(stripped) |-> IF stripped[i] \in SafeChars THEN stripped[i] ELSE "_"]

\* the command has white space in it, and a token
HasTokensAndWhitespace(command) ==
    /\ Chars(command) \cap Whitespace # {}
    /\ split(command) # <<>>

\* C31: for a command string with whitespace and no explicit name, the name
\* sanitize_name derives equals the reference derivation (first token that is
\* no KEY=value assignment and starts with no "-", else the first token;
\* basename; one trailing .py/.js/.rb/.sh taken off; every character outside
\* [A-Za-z0-9_-] replaced by "_"), for every input.
C31_DerivedNameEqualsReference ==
    (derived.done /\ HasTokensAndWhitespace(derived.from))
        => derived.name = ReferenceName(derived.from)

\* C32: when ProcessManager.start returns None (failure), no process launched
\* by that call is running afterwards: in every interleaving of the invoking
\* parent and the detached child, the launch and the PID-file write come before
\* the parent's verification read, so a command that does start is never
\* reported as failed.
C32_FailedStartLeftNoCommand ==
    \A p \in DetachPids :
        (ptab[p].role = "invoker" /\ ptab[p].pc = "failed")
            => \A c \in DetachPids : ptab[c].role # "command"

====
